---- MODULE Spec2Model ----
(***************************************************************************)
(* Crawl engine of anvesha_crawler: the URL frontier (core/url_frontier.rs)*)
(* with the CrawlUrl order (models/crawl_url.rs), the crawl scheduler      *)
(* (core/scheduler.rs) and the crawl workers (core/crawler.rs).            *)
(*                                                                         *)
(* A process is a tokio task.  One step of a process is the code between   *)
(* two suspension points or accesses to shared state.                      *)
(***************************************************************************)
EXTENDS Bags, FiniteSets, Integers, Sequences, TLC

(***************************************************************************)
(* Bounds of the model.                                                    *)
(***************************************************************************)
MaxQueueSize == 2
MaxBatch == 2
MaxRetries == 2
MaxPermits == 2
MaxPages == 2
MaxDelay == 2
MaxSaves == 3
MaxContent == 3

MaxDocs == 3
MaxThreads == 2
MaxPageNo == 2
MaxDepth == 1

\* the tasks: crawl_internal runs in main, the workers and the callers of
\* the frontier and of the scheduler in t1, t2, t3
Procs == {"main", "t1", "t2", "t3"}
WorkerNames == <<"t1", "t2">>

Domains == {"a", "b"}

(***************************************************************************)
(* CrawlUrl records the callers of the frontier submit.  Priorities are    *)
(* finite f64 values, modelled by integers.                                *)
(***************************************************************************)
Urls == {"http://a/", "http://a/x", "http://b/"}
\* a seed url that url::Url::parse rejects
BadUrl == "not a url"
AllUrls == Urls \cup {BadUrl}
Priorities == {1, 2}
Depths == {0, 1}
Times == {0, 1}

CrawlUrl(u, p, d, t) == [url |-> u, priority |-> p, depth |-> d, discovered_at |-> t]

CrawlUrls == {CrawlUrl(u, p, d, t) : u \in Urls, p \in Priorities, d \in Depths, t \in Times}

\* the records concurrent callers submit: the same url with different priorities
ConcurrentInputs == {CrawlUrl(u, p, 0, 0) : u \in {"http://a/", "http://b/"}, p \in Priorities}

\* the urls mark_crawled is called with
MarkedUrls == {"http://a/"}

NoUrl == [url |-> "-"]

VARIABLES
  queue,            \* UrlFrontier.queue: the BinaryHeap, a bag of CrawlUrl
  seen_urls,        \* UrlFrontier.seen_urls
  crawled_urls,     \* UrlFrontier.crawled_urls
  max_queue_size,   \* UrlFrontier.max_queue_size
  inputs,           \* the CrawlUrl records the callers of the frontier submit
  active,           \* the tasks that exist
  pc,               \* position of each task
  ctx,              \* the operation each task is in
  remaining,        \* add_urls: the number of elements of urls not yet iterated
  url,              \* add_url: the parameter url
  added,            \* add_urls: the local added
  permits,          \* CrawlScheduler.semaphore: the available permits
  concurrent_requests,  \* config.crawler.concurrent_requests
  max_retries,      \* CrawlScheduler.max_retries
  request_delay,    \* CrawlScheduler.request_delay, in ticks of the clock
  domain_delays,    \* CrawlScheduler.domain_delays: the domains that have an entry
  elapsed,          \* per domain with an entry: Instant::elapsed() of the entry, in
                    \* ticks, counted up to request_delay
  domain,           \* schedule_crawl: the parameter domain
  task,             \* schedule_crawl: the parameter task
  sleep_left,       \* respect_domain_delay: the ticks left of sleep(remaining_delay)
  attempts,         \* schedule_crawl: the local attempts
  invocations,      \* the number of times task was invoked by the call
  result,           \* the value the last schedule_crawl call of a task returned
  pages_crawled,    \* WebCrawler.pages_crawled
  pages_failed,     \* WebCrawler.pages_failed
  max_pages,        \* config.crawler.max_pages
  save_failed,      \* crawl_single_page: save_page returned Err for the page
  seed_urls,        \* config.crawler.seed_urls
  crawl_url,        \* crawler_worker: the local crawl_url
  exited,           \* per worker: how crawler_worker ended
  phase,            \* position of crawl_internal
  accept_count,     \* history: per url, the number of add_url calls that returned true
  dequeued,         \* history: bag of the urls next_url returned
  handed,           \* history: per url, the number of schedule_crawl calls made for it
  counted_ok,       \* history: per url, its share of pages_crawled
  slept,            \* history: per task, whether respect_domain_delay slept in its call
  after_sleep,      \* history: per domain with an entry younger than request_delay,
                    \* whether the call that wrote the entry had slept
  worker_threads,   \* tokio runtime: the number of executor threads
  same_shard,       \* DashMap: whether the keys "a" and "b" of domain_delays hash to
                    \* one shard
  max_depth,        \* config.crawler.max_depth
  pages,            \* table pages: the stored row of each stored url
  domains,          \* table domains: the row of each domain
  page_cache,       \* MemoryCache.page_cache: the entry of each key that has one
  live,             \* history: the pages cached and since neither expired, invalidated
                    \* nor replaced
  arg,              \* the argument of the function a specification applies
  ret               \* what the function returned, NoRet before the call

frontierVars == <<queue, seen_urls, crawled_urls, max_queue_size>>
procVars == <<inputs, active, pc, ctx, remaining, url, added>>
schedVars == <<permits, concurrent_requests, max_retries, request_delay, domain_delays, elapsed>>
callVars == <<domain, task, sleep_left, attempts, invocations, result>>
crawlVars == <<pages_crawled, pages_failed, max_pages, save_failed, seed_urls, crawl_url, exited, phase>>
histVars == <<accept_count, dequeued, handed, counted_ok, slept, after_sleep>>
storeVars == <<pages, domains>>
fnVars == <<arg, ret>>
cacheVars == <<page_cache, live>>
rtVars == <<worker_threads, same_shard>>
cfgVars == <<max_depth>>
extVars == <<storeVars, cacheVars, fnVars, rtVars, cfgVars>>
engineVars == <<frontierVars, procVars, schedVars, callVars, crawlVars, histVars>>
vars == <<queue, seen_urls, crawled_urls, max_queue_size, inputs, active, pc, ctx, remaining,
          url, added, permits, concurrent_requests, max_retries, request_delay, domain_delays,
          elapsed, domain, task, sleep_left, attempts, invocations, result, pages_crawled, pages_failed, max_pages, save_failed, seed_urls,
          crawl_url, exited, phase, accept_count, dequeued, handed, counted_ok, slept, after_sleep, worker_threads,
          same_shard, max_depth, pages, domains, page_cache, live, arg, ret>>

(***************************************************************************)
(* impl Ord for CrawlUrl.                                                  *)
(***************************************************************************)
\* f64::partial_cmp on finite values, u32::cmp, u64::cmp
NumCmp(x, y) == IF x < y THEN "Less" ELSE IF x > y THEN "Greater" ELSE "Equal"

\* Cmp with the depth compared the natural way round
CmpDeeperFirst(self, other) ==
  LET priority_ordering == NumCmp(self.priority, other.priority)
      depth_ordering == NumCmp(self.depth, other.depth)
  IN  IF priority_ordering = "Equal"
      THEN IF depth_ordering = "Equal"
           THEN NumCmp(other.discovered_at, self.discovered_at)
           ELSE depth_ordering
      ELSE priority_ordering

Cmp(self, other) ==
  LET priority_ordering == NumCmp(self.priority, other.priority)
      depth_ordering == NumCmp(other.depth, self.depth)
  IN  IF priority_ordering = "Equal"
      THEN IF depth_ordering = "Equal"
           THEN NumCmp(other.discovered_at, self.discovered_at)
           ELSE depth_ordering
      ELSE priority_ordering

(***************************************************************************)
(* BinaryHeap<CrawlUrl>: push adds one copy, pop removes a greatest        *)
(* element under Ord (any of them when several compare Equal).             *)
(***************************************************************************)
HeapLen(h) == BagCardinality(h)

HeapPush(h, x) == h (+) SetToBag({x})

HeapTop(h) == {x \in BagToSet(h) : \A y \in BagToSet(h) : Cmp(y, x) # "Greater"}

HeapRemove(h, x) == h (-) SetToBag({x})

(***************************************************************************)
(* UrlFrontier::new                                                        *)
(***************************************************************************)
FrontierNew(cap) ==
  /\ queue = EmptyBag
  /\ seen_urls = {}
  /\ crawled_urls = {}
  /\ max_queue_size = cap

HistInit ==
  /\ accept_count = [u \in AllUrls |-> 0]
  /\ dequeued = EmptyBag
  /\ handed = [u \in AllUrls |-> 0]
  /\ counted_ok = [u \in AllUrls |-> 0]
  /\ slept = [p \in Procs |-> FALSE]
  /\ after_sleep = [d \in Domains |-> FALSE]

ProcInit(tasks, submitted) ==
  /\ inputs = submitted
  /\ active = tasks
  /\ pc = [p \in Procs |-> "idle"]
  /\ ctx = [p \in Procs |-> "none"]
  /\ remaining = [p \in Procs |-> 0]
  /\ url = [p \in Procs |-> NoUrl]
  /\ added = [p \in Procs |-> 0]

(***************************************************************************)
(* The CrawlUrl records of the crawl.  Priorities are in units of 1/60.    *)
(***************************************************************************)
\* the clock reading chrono::Utc::now().timestamp(): the crawl of the model
\* takes less than a second
CrawlTimes == {0}

\* initialize_frontier: the record of a seed url
SeedUrl(seed, now) == CrawlUrl(seed, 10 * 60, 0, now)

\* PageProcessor::calculate_link_priority, for a url with no priority domain
\* in its host and no /article/, /post/ or /blog/ in its path
LinkPriority(depth) == 60 \div (depth + 1)

\* PageProcessor::resolve_and_validate_url: the record of a link
LinkUrl(link, depth, now) == CrawlUrl(link, LinkPriority(depth), depth, now)

\* the records the next add_url of task p may be called with
NextInput(p) ==
  IF pc[p] # "add_check" THEN {}
  ELSE IF ctx[p] = "initialize_frontier"
  THEN {SeedUrl(seed_urls[Len(seed_urls) - remaining[p] + 1], now) : now \in CrawlTimes}
  ELSE IF ctx[p] = "worker"
       THEN {LinkUrl(link, crawl_url[p].depth + 1, now) : link \in Urls, now \in CrawlTimes}
       ELSE inputs

(***************************************************************************)
(* UrlFrontier::add_url and add_urls.  The elements of the Vec add_urls    *)
(* iterates are drawn when the loop reaches them.                          *)
(***************************************************************************)
\* a task calls add_url
AddUrlCall(p) ==
  /\ UNCHANGED <<schedVars, callVars, crawlVars>>
  /\ UNCHANGED extVars
  /\ p \in active /\ pc[p] = "idle"
  /\ ctx' = [ctx EXCEPT ![p] = "add_url"]
  /\ remaining' = [remaining EXCEPT ![p] = 1]
  /\ pc' = [pc EXCEPT ![p] = "add_check"]
  /\ UNCHANGED <<frontierVars, inputs, active, url, added, histVars>>

\* a task calls add_urls with a Vec of n urls
AddUrlsCall(p, n) ==
  /\ UNCHANGED <<schedVars, callVars, crawlVars>>
  /\ UNCHANGED extVars
  /\ p \in active /\ pc[p] = "idle"
  /\ added' = [added EXCEPT ![p] = 0]
  /\ IF n = 0
     THEN UNCHANGED <<pc, ctx, remaining>>
     ELSE /\ pc' = [pc EXCEPT ![p] = "add_check"]
          /\ ctx' = [ctx EXCEPT ![p] = "add_urls"]
          /\ remaining' = [remaining EXCEPT ![p] = n]
  /\ UNCHANGED <<frontierVars, inputs, active, url, histVars>>

\* add_url returns ok: to its caller, or to the loop of add_urls, which
\* counts it and goes on with the next url
AddReturn(p, ok) ==
  LET last == remaining[p] = 1
  IN  /\ remaining' = [remaining EXCEPT ![p] = @ - 1]
      /\ url' = [url EXCEPT ![p] = NoUrl]
      /\ added' = [added EXCEPT ![p] = IF ctx[p] = "add_urls" /\ ok /\ ~last THEN @ + 1 ELSE 0]
      /\ pc' = [pc EXCEPT ![p] = IF ~last THEN "add_check"
                                  ELSE IF ctx[p] = "initialize_frontier" THEN "spawn"
                                  ELSE IF ctx[p] = "worker" THEN "page_ok"
                                  ELSE "idle"]
      /\ ctx' = [ctx EXCEPT ![p] = IF last /\ @ \in {"add_url", "add_urls"} THEN "none" ELSE @]
      /\ UNCHANGED <<inputs, active>>

\* AddUrlCheck without the lookup in seen_urls
AddUrlCheckNoLookup(p, u) ==
  /\ UNCHANGED <<schedVars, callVars, crawlVars>>
  /\ UNCHANGED extVars
  /\ p \in active /\ pc[p] = "add_check"
  /\ u \in NextInput(p)
  /\ pc' = [pc EXCEPT ![p] = "add_lock"]
  /\ url' = [url EXCEPT ![p] = u]
  /\ UNCHANGED <<inputs, active, ctx, remaining, added>>
  /\ UNCHANGED <<frontierVars, histVars>>

\* add_url(u) up to the lock: the lookup in seen_urls
AddUrlCheck(p, u) ==
  /\ UNCHANGED <<schedVars, callVars, crawlVars>>
  /\ UNCHANGED extVars
  /\ p \in active /\ pc[p] = "add_check"
  /\ u \in NextInput(p)
  /\ IF u.url \in seen_urls
     THEN AddReturn(p, FALSE)
     ELSE /\ pc' = [pc EXCEPT ![p] = "add_lock"]
          /\ url' = [url EXCEPT ![p] = u]
          /\ UNCHANGED <<inputs, active, ctx, remaining, added>>
  /\ UNCHANGED <<frontierVars, histVars>>

\* AddUrlLocked without the queue size limit
AddUrlLockedNoLimit(p) ==
  /\ UNCHANGED <<schedVars, callVars, crawlVars>>
  /\ UNCHANGED extVars
  /\ p \in active /\ pc[p] = "add_lock"
  /\ seen_urls' = seen_urls \cup {url[p].url}
  /\ queue' = HeapPush(queue, url[p])
  /\ accept_count' = [accept_count EXCEPT ![url[p].url] = @ + 1]
  /\ AddReturn(p, TRUE)
  /\ UNCHANGED <<crawled_urls, max_queue_size, dequeued, handed, counted_ok, slept, after_sleep>>

\* add_url holding the lock of the queue
AddUrlLocked(p) ==
  /\ UNCHANGED <<schedVars, callVars, crawlVars>>
  /\ UNCHANGED extVars
  /\ p \in active /\ pc[p] = "add_lock"
  /\ IF HeapLen(queue) >= max_queue_size
     THEN /\ AddReturn(p, FALSE)
          /\ UNCHANGED <<queue, seen_urls, accept_count>>
     ELSE /\ seen_urls' = seen_urls \cup {url[p].url}
          /\ queue' = HeapPush(queue, url[p])
          /\ accept_count' = [accept_count EXCEPT ![url[p].url] = @ + 1]
          /\ AddReturn(p, TRUE)
  /\ UNCHANGED <<crawled_urls, max_queue_size, dequeued, handed, counted_ok, slept, after_sleep>>

(***************************************************************************)
(* UrlFrontier::next_url                                                   *)
(***************************************************************************)
NextUrl(p) ==
  /\ p \in active /\ pc[p] = IF ctx[p] = "worker" THEN "next_url" ELSE "idle"
  /\ UNCHANGED extVars
  /\ IF HeapLen(queue) = 0
     THEN /\ UNCHANGED <<queue, dequeued, crawl_url>>
          /\ pc' = [pc EXCEPT ![p] = IF ctx[p] = "worker" THEN "grace_sleep" ELSE @]
     ELSE \E x \in HeapTop(queue) :
            /\ queue' = HeapRemove(queue, x)
            /\ dequeued' = dequeued (+) SetToBag({x.url})
            /\ crawl_url' = [crawl_url EXCEPT ![p] = IF ctx[p] = "worker" THEN x ELSE @]
            /\ pc' = [pc EXCEPT ![p] = IF ctx[p] = "worker" THEN "dequeued" ELSE @]
  /\ UNCHANGED <<seen_urls, crawled_urls, max_queue_size, inputs, active, ctx, remaining, url,
                 added, schedVars, callVars, pages_crawled, pages_failed, max_pages, save_failed, seed_urls,
                 exited, phase, accept_count, handed, counted_ok, slept, after_sleep>>

(***************************************************************************)
(* UrlFrontier::mark_crawled                                               *)
(***************************************************************************)
MarkCrawled(p, u) ==
  /\ UNCHANGED <<schedVars, callVars, crawlVars>>
  /\ UNCHANGED extVars
  /\ p \in active /\ pc[p] = "idle"
  /\ crawled_urls' = crawled_urls \cup {u}
  /\ UNCHANGED <<queue, seen_urls, max_queue_size, procVars, histVars>>

(***************************************************************************)
(* CrawlScheduler.  The task of a schedule_crawl call is a closure that    *)
(* fails on its first `failures` invocations and then succeeds, or fails   *)
(* on every invocation, with the NetworkError `error`; the error of        *)
(* invocation n has the message n.                                         *)
(***************************************************************************)

\* NetworkError: the variants with the fields is_retryable reads; inner is
\* the kind of the reqwest::Error a Request wraps
NetError(kind, status, inner) == [kind |-> kind, status |-> status, inner |-> inner]

HttpStatuses == {404, 429, 500, 503}

NetworkErrors ==
  {NetError(k, 0, "-") : k \in {"Timeout", "Connection", "InvalidUrl", "Encoding",
                               "ContentTooLarge", "UnsupportedContentType",
                               "RobotsDisallowed", "RateLimited", "DnsError", "TlsError",
                               "RedirectLoop", "TooManyRedirects", "Io"}}
    \cup {NetError("Http", st, "-") : st \in HttpStatuses}
    \cup {NetError("Request", 0, i) : i \in {"timeout", "connect", "body"}}

\* NetworkError::is_retryable
is_retryable(e) ==
  CASE e.kind = "Timeout" -> TRUE
    [] e.kind = "Connection" -> TRUE
    [] e.kind = "DnsError" -> FALSE
    [] e.kind = "Http" -> (e.status >= 500 /\ e.status < 600) \/ e.status = 429
    [] e.kind = "RateLimited" -> TRUE
    [] e.kind = "TlsError" -> FALSE
    [] e.kind = "Request" -> e.inner = "timeout" \/ e.inner = "connect"
    [] OTHER -> FALSE

NoError == NetError("none", 0, "-")

\* the errors of the tasks of the calls: one retryable, one not
TaskErrors == {NetError("Timeout", 0, "-"), NetError("InvalidUrl", 0, "-")}

Tasks == {[failures |-> 0, recovers |-> TRUE, error |-> NoError]}
           \cup {[failures |-> k, recovers |-> TRUE, error |-> e] :
                   k \in 1..MaxRetries, e \in TaskErrors}
           \cup {[failures |-> 0, recovers |-> FALSE, error |-> e] : e \in TaskErrors}

TaskOutcome(t, n) ==
  IF t.recovers /\ n > t.failures THEN [ok |-> TRUE] ELSE [ok |-> FALSE, msg |-> n]

NoTask == [failures |-> 0, recovers |-> TRUE, error |-> NoError]

NoResult == [kind |-> "none"]
OkResult == [kind |-> "Ok"]
MaxRetriesExceeded(msg) == [kind |-> "MaxRetriesExceeded", msg |-> msg]

\* CrawlScheduler::new
SchedulerNew(n, r, d) ==
  /\ permits = n
  /\ concurrent_requests = n
  /\ max_retries = r
  /\ request_delay = d
  /\ domain_delays = {}
  /\ elapsed = [x \in Domains |-> 0]

CallInit ==
  /\ domain = [p \in Procs |-> "-"]
  /\ task = [p \in Procs |-> NoTask]
  /\ sleep_left = [p \in Procs |-> 0]
  /\ attempts = [p \in Procs |-> 0]
  /\ invocations = [p \in Procs |-> 0]
  /\ result = [p \in Procs |-> NoResult]

\* a task calls schedule_crawl(d, task); the behaviour of the closure task
\* is drawn where schedule_crawl first uses it, in InsertDelay
ScheduleCrawlCall(p, d) ==
  /\ p \in active /\ pc[p] = "idle"
  /\ UNCHANGED extVars
  /\ pc' = [pc EXCEPT ![p] = "acquire"]
  /\ ctx' = [ctx EXCEPT ![p] = "schedule_crawl"]
  /\ domain' = [domain EXCEPT ![p] = d]
  /\ task' = [task EXCEPT ![p] = NoTask]
  /\ attempts' = [attempts EXCEPT ![p] = 0]
  /\ invocations' = [invocations EXCEPT ![p] = 0]
  /\ result' = [result EXCEPT ![p] = NoResult]
  /\ UNCHANGED <<frontierVars, inputs, active, remaining, url, added, schedVars, sleep_left,
                 crawlVars, histVars>>

\* AcquirePermit that does not wait for a permit
AcquirePermitNoWait(p) ==
  /\ p \in active /\ pc[p] = "acquire"
  /\ UNCHANGED extVars
  /\ permits' = IF permits > 0 THEN permits - 1 ELSE 0
  /\ pc' = [pc EXCEPT ![p] = "delay"]
  /\ UNCHANGED <<frontierVars, inputs, active, ctx, remaining, url, added, concurrent_requests,
                 max_retries, request_delay, domain_delays, elapsed, callVars,
                 crawlVars, histVars>>

\* acquire_permit: semaphore.acquire().await
AcquirePermit(p) ==
  /\ p \in active /\ pc[p] = "acquire"
  /\ UNCHANGED extVars
  /\ permits > 0
  /\ permits' = permits - 1
  /\ pc' = [pc EXCEPT ![p] = "delay"]
  /\ UNCHANGED <<frontierVars, inputs, active, ctx, remaining, url, added, concurrent_requests,
                 max_retries, request_delay, domain_delays, elapsed, callVars,
                 crawlVars, histVars>>

\* the domains d and e are keys of one shard of domain_delays
SameShard(d, e) == d = e \/ same_shard

\* the call of q sleeps in respect_domain_delay, holding its reference into
\* the shard of domain d
HoldsRef(q, d) == pc[q] = "delay_sleep" /\ SameShard(domain[q], d)

\* RespectDomainDelay that never sleeps
RespectDomainDelayNoSleep(p) ==
  /\ p \in active /\ pc[p] = "delay"
  /\ UNCHANGED extVars
  /\ pc' = [pc EXCEPT ![p] = "delay_insert"]
  /\ UNCHANGED <<frontierVars, inputs, active, ctx, remaining, url, added, schedVars, callVars,
                 crawlVars, histVars>>

\* respect_domain_delay: the lookup in domain_delays.  With an entry younger
\* than request_delay the call sleeps for the remainder, holding its
\* reference to the entry.
RespectDomainDelay(p) ==
  /\ p \in active /\ pc[p] = "delay"
  /\ UNCHANGED extVars
  /\ IF domain[p] \in domain_delays /\ elapsed[domain[p]] < request_delay
     THEN /\ sleep_left' = [sleep_left EXCEPT ![p] = request_delay - elapsed[domain[p]]]
          /\ pc' = [pc EXCEPT ![p] = "delay_sleep"]
          /\ slept' = [slept EXCEPT ![p] = TRUE]
     ELSE /\ pc' = [pc EXCEPT ![p] = "delay_insert"]
          /\ slept' = [slept EXCEPT ![p] = FALSE]
          /\ UNCHANGED sleep_left
  /\ UNCHANGED <<frontierVars, inputs, active, ctx, remaining, url, added, schedVars, domain,
                 task, attempts, invocations, result, crawlVars, accept_count, dequeued,
                 handed, counted_ok, after_sleep>>

\* respect_domain_delay: the sleep is over, the reference is dropped
DelaySlept(p) ==
  /\ p \in active /\ pc[p] = "delay_sleep"
  /\ UNCHANGED extVars
  /\ sleep_left[p] = 0
  /\ pc' = [pc EXCEPT ![p] = "delay_insert"]
  /\ UNCHANGED <<frontierVars, inputs, active, ctx, remaining, url, added, schedVars, callVars,
                 crawlVars, histVars>>

\* respect_domain_delay: domain_delays.insert(domain, Instant::now()), which
\* takes the write lock of the shard of the domain and so waits while another
\* call holds a reference to an entry of that shard;
\* then schedule_crawl sets attempts to 0 and enters the loop that invokes
\* task, a closure of behaviour t
InsertDelay(p, t) ==
  /\ p \in active /\ pc[p] = "delay_insert"
  /\ UNCHANGED extVars
  /\ \A q \in Procs \ {p} : ~HoldsRef(q, domain[p])
  /\ domain_delays' = domain_delays \cup {domain[p]}
  /\ elapsed' = [elapsed EXCEPT ![domain[p]] = 0]
  /\ domain' = [domain EXCEPT ![p] = "-"]
  /\ task' = [task EXCEPT ![p] = t]
  /\ attempts' = [attempts EXCEPT ![p] = 0]
  /\ pc' = [pc EXCEPT ![p] = "task"]
  /\ after_sleep' = [after_sleep EXCEPT ![domain[p]] = slept[p] /\ request_delay > 0]
  /\ slept' = [slept EXCEPT ![p] = FALSE]
  /\ UNCHANGED <<frontierVars, inputs, active, ctx, remaining, url, added, permits,
                 concurrent_requests, max_retries, request_delay, sleep_left, invocations,
                 result, crawlVars, accept_count, dequeued, handed, counted_ok>>

\* one tick of the clock of tokio::time passes: the entries of domain_delays
\* grow older and the sleeps of respect_domain_delay shorter
Tick ==
  /\ \/ \E d \in domain_delays : elapsed[d] < request_delay
     \/ \E p \in Procs : sleep_left[p] > 0
  /\ UNCHANGED extVars
  /\ elapsed' = [d \in Domains |->
                   IF d \in domain_delays /\ elapsed[d] < request_delay
                   THEN elapsed[d] + 1 ELSE elapsed[d]]
  /\ sleep_left' = [p \in Procs |-> IF sleep_left[p] > 0 THEN sleep_left[p] - 1 ELSE 0]
  /\ after_sleep' = [d \in Domains |-> after_sleep[d] /\ elapsed'[d] < request_delay]
  /\ UNCHANGED <<frontierVars, procVars, permits, concurrent_requests, max_retries,
                 request_delay, domain_delays, domain, task, attempts, invocations, result,
                 crawlVars, accept_count, dequeued, handed, counted_ok, slept>>

\* schedule_crawl returns r: the permit is dropped
ScheduleReturn(p, r) ==
  /\ result' = [result EXCEPT ![p] = r]
  /\ permits' = permits + 1
  /\ pc' = [pc EXCEPT ![p] = IF ctx[p] = "worker" THEN "scheduled" ELSE "idle"]
  /\ ctx' = [ctx EXCEPT ![p] = IF @ = "worker" THEN @ ELSE "none"]

\* TaskAttempt giving up one attempt early
TaskAttemptOffByOne(p) ==
  /\ p \in active /\ pc[p] = "task"
  /\ UNCHANGED extVars
  /\ attempts' = [attempts EXCEPT ![p] = @ + 1]
  /\ invocations' = [invocations EXCEPT ![p] = @ + 1]
  /\ LET out == TaskOutcome(task[p], invocations'[p])
     IN  IF out.ok
         THEN ScheduleReturn(p, OkResult)
         ELSE IF attempts'[p] + 1 >= max_retries
              THEN ScheduleReturn(p, MaxRetriesExceeded(out.msg))
              ELSE /\ pc' = [pc EXCEPT ![p] = "retry_sleep"]
                   /\ UNCHANGED <<ctx, permits, result>>
  /\ UNCHANGED <<frontierVars, inputs, active, remaining, url, added, concurrent_requests,
                 max_retries, request_delay, domain_delays, elapsed, domain, task,
                 sleep_left, crawlVars, histVars>>

\* TaskAttempt giving up one attempt late
TaskAttemptLate(p) ==
  /\ p \in active /\ pc[p] = "task"
  /\ UNCHANGED extVars
  /\ attempts' = [attempts EXCEPT ![p] = @ + 1]
  /\ invocations' = [invocations EXCEPT ![p] = @ + 1]
  /\ LET out == TaskOutcome(task[p], invocations'[p])
     IN  IF out.ok
         THEN ScheduleReturn(p, OkResult)
         ELSE IF attempts'[p] > max_retries + 1
              THEN ScheduleReturn(p, MaxRetriesExceeded(out.msg))
              ELSE /\ pc' = [pc EXCEPT ![p] = "retry_sleep"]
                   /\ UNCHANGED <<ctx, permits, result>>
  /\ UNCHANGED <<frontierVars, inputs, active, remaining, url, added, concurrent_requests,
                 max_retries, request_delay, domain_delays, elapsed, domain, task,
                 sleep_left, crawlVars, histVars>>

\* one iteration of the retry loop of schedule_crawl
TaskAttempt(p) ==
  /\ p \in active /\ pc[p] = "task"
  /\ UNCHANGED extVars
  /\ attempts' = [attempts EXCEPT ![p] = @ + 1]
  /\ invocations' = [invocations EXCEPT ![p] = @ + 1]
  /\ LET out == TaskOutcome(task[p], invocations'[p])
     IN  IF out.ok
         THEN ScheduleReturn(p, OkResult)
         ELSE IF attempts'[p] >= max_retries
              THEN ScheduleReturn(p, MaxRetriesExceeded(out.msg))
              ELSE /\ pc' = [pc EXCEPT ![p] = "retry_sleep"]
                   /\ UNCHANGED <<ctx, permits, result>>
  /\ UNCHANGED <<frontierVars, inputs, active, remaining, url, added, concurrent_requests,
                 max_retries, request_delay, domain_delays, elapsed, domain, task,
                 sleep_left, crawlVars, histVars>>

\* sleep(delay).await before the next attempt
RetrySlept(p) ==
  /\ p \in active /\ pc[p] = "retry_sleep"
  /\ UNCHANGED extVars
  /\ pc' = [pc EXCEPT ![p] = "task"]
  /\ UNCHANGED <<frontierVars, inputs, active, ctx, remaining, url, added, schedVars, callVars,
                 crawlVars, histVars>>

\* WebCrawler::new
CrawlerNew(n, seeds) ==
  /\ pages_crawled = 0
  /\ pages_failed = 0
  /\ max_pages = n
  /\ seed_urls = seeds
  /\ save_failed = [p \in Procs |-> FALSE]
  /\ crawl_url = [p \in Procs |-> NoUrl]
  /\ exited = [p \in Procs |-> "no"]
  /\ phase = "new"

(***************************************************************************)
(* WebCrawler: crawl_internal in task main, crawler_worker in the workers. *)
(***************************************************************************)
Workers(n) == {WorkerNames[i] : i \in 1..n}

\* WebCrawler::extract_domain: url::Url::parse(url)? and the host of the url
ExtractDomain(u) ==
  IF u = BadUrl THEN [ok |-> FALSE]
  ELSE [ok |-> TRUE, val |-> IF u = "http://b/" THEN "b" ELSE "a"]

\* crawl_internal up to the first add_url of initialize_frontier
StartCrawling(p) ==
  /\ p = "main" /\ p \in active /\ pc[p] = "idle" /\ phase = "new"
  /\ UNCHANGED extVars
  /\ phase' = "initialize_frontier"
  /\ ctx' = [ctx EXCEPT ![p] = "initialize_frontier"]
  /\ remaining' = [remaining EXCEPT ![p] = Len(seed_urls)]
  /\ pc' = [pc EXCEPT ![p] = IF seed_urls = <<>> THEN "spawn" ELSE "add_check"]
  /\ UNCHANGED <<frontierVars, inputs, active, url, added, schedVars, callVars, pages_crawled,
                 pages_failed, max_pages, save_failed, seed_urls, crawl_url, exited, histVars>>

\* crawl_internal: tokio::spawn of the concurrent_requests workers
SpawnWorkers(p) ==
  /\ p = "main" /\ p \in active /\ pc[p] = "spawn"
  /\ UNCHANGED extVars
  /\ phase' = "crawling"
  /\ pc' = [q \in Procs |-> IF q = p THEN "join"
                            ELSE IF q \in Workers(concurrent_requests) THEN "loop" ELSE pc[q]]
  /\ ctx' = [q \in Procs |-> IF q = p THEN "crawl_internal"
                             ELSE IF q \in Workers(concurrent_requests) THEN "worker"
                             ELSE ctx[q]]
  /\ UNCHANGED <<frontierVars, inputs, active, remaining, url, added, schedVars, callVars,
                 pages_crawled, pages_failed, max_pages, save_failed, seed_urls, crawl_url, exited,
                 histVars>>

\* crawl_internal: all handles are awaited, the statistics are returned
JoinWorkers(p) ==
  /\ p = "main" /\ p \in active /\ pc[p] = "join"
  /\ UNCHANGED extVars
  /\ \A w \in Workers(concurrent_requests) : exited[w] # "no"
  /\ phase' = "returned"
  /\ pc' = [pc EXCEPT ![p] = "idle"]
  /\ ctx' = [ctx EXCEPT ![p] = "none"]
  /\ UNCHANGED <<frontierVars, inputs, active, remaining, url, added, schedVars, callVars,
                 pages_crawled, pages_failed, max_pages, save_failed, seed_urls, crawl_url, exited,
                 histVars>>

\* crawler_worker: the condition of the while loop
WorkerLoop(w) ==
  /\ w \in active /\ pc[w] = "loop"
  /\ UNCHANGED extVars
  /\ IF pages_crawled < max_pages
     THEN /\ pc' = [pc EXCEPT ![w] = "next_url"]
          /\ UNCHANGED exited
     ELSE /\ pc' = [pc EXCEPT ![w] = "done"]
          /\ exited' = [exited EXCEPT ![w] = "max_pages"]
  /\ UNCHANGED <<frontierVars, inputs, active, ctx, remaining, url, added, schedVars, callVars,
                 pages_crawled, pages_failed, max_pages, save_failed, seed_urls, crawl_url, phase, histVars>>

\* crawler_worker: next_url returned None; after the sleep, is_empty
WorkerGraceSleep(w) ==
  /\ w \in active /\ pc[w] = "grace_sleep"
  /\ UNCHANGED extVars
  /\ IF HeapLen(queue) = 0
     THEN /\ pc' = [pc EXCEPT ![w] = "done"]
          /\ exited' = [exited EXCEPT ![w] = "frontier_empty"]
     ELSE /\ pc' = [pc EXCEPT ![w] = "loop"]
          /\ UNCHANGED exited
  /\ UNCHANGED <<frontierVars, inputs, active, ctx, remaining, url, added, schedVars, callVars,
                 pages_crawled, pages_failed, max_pages, save_failed, seed_urls, crawl_url, phase, histVars>>

\* crawler_worker: is_crawled, extract_domain(..)?, and crawl_single_page up
\* to the call of schedule_crawl with the fetch of the page as task
WorkerDequeued(w) ==
  /\ w \in active /\ pc[w] = "dequeued"
  /\ UNCHANGED extVars
  /\ IF crawl_url[w].url \in crawled_urls
     THEN /\ pc' = [pc EXCEPT ![w] = "loop"]
          /\ UNCHANGED <<exited, callVars, handed>>
     ELSE IF ~ExtractDomain(crawl_url[w].url).ok
          THEN /\ pc' = [pc EXCEPT ![w] = "done"]
               /\ exited' = [exited EXCEPT ![w] = "error"]
               /\ UNCHANGED <<callVars, handed>>
          ELSE /\ pc' = [pc EXCEPT ![w] = "acquire"]
               /\ domain' = [domain EXCEPT ![w] = ExtractDomain(crawl_url[w].url).val]
               /\ task' = [task EXCEPT ![w] = NoTask]
               /\ attempts' = [attempts EXCEPT ![w] = 0]
               /\ invocations' = [invocations EXCEPT ![w] = 0]
               /\ result' = [result EXCEPT ![w] = NoResult]
               /\ handed' = [handed EXCEPT ![crawl_url[w].url] = @ + 1]
               /\ UNCHANGED <<exited, sleep_left>>
  /\ UNCHANGED <<frontierVars, inputs, active, ctx, remaining, url, added, schedVars,
                 pages_crawled, pages_failed, max_pages, save_failed, seed_urls, crawl_url, phase,
                 accept_count, dequeued, counted_ok, slept, after_sleep>>

\* schedule_crawl returned.  Ok(page_data): crawl_single_page calls save_page
\* when it has a repository (save_ok: no repository, or the page was saved),
\* logs its failure, marks the url crawled and calls add_urls with the n
\* outgoing links of the page.
\* Err: crawl_single_page returns it and the worker counts the failure.
\* The locals of the schedule_crawl call are gone.
WorkerScheduled(w, n, save_ok) ==
  /\ w \in active /\ pc[w] = "scheduled"
  /\ UNCHANGED extVars
  /\ IF result[w] = OkResult
     THEN /\ save_failed' = [save_failed EXCEPT ![w] = ~save_ok]
          /\ crawled_urls' = crawled_urls \cup {crawl_url[w].url}
          /\ remaining' = [remaining EXCEPT ![w] = n]
          /\ added' = [added EXCEPT ![w] = 0]
          /\ pc' = [pc EXCEPT ![w] = IF n = 0 THEN "page_ok" ELSE "add_check"]
          /\ UNCHANGED pages_failed
     ELSE /\ pages_failed' = pages_failed + 1
          /\ pc' = [pc EXCEPT ![w] = "loop"]
          /\ UNCHANGED <<crawled_urls, remaining, added, save_failed>>
  /\ task' = [task EXCEPT ![w] = NoTask]
  /\ attempts' = [attempts EXCEPT ![w] = 0]
  /\ invocations' = [invocations EXCEPT ![w] = 0]
  /\ result' = [result EXCEPT ![w] = NoResult]
  /\ UNCHANGED <<queue, seen_urls, max_queue_size, inputs, active, ctx, url, schedVars,
                 domain, sleep_left, pages_crawled, max_pages, seed_urls, crawl_url, exited, phase,
                 histVars>>

\* crawler_worker: crawl_single_page returned Ok
WorkerPageOk(w) ==
  /\ w \in active /\ pc[w] = "page_ok"
  /\ UNCHANGED extVars
  /\ pages_crawled' = pages_crawled + 1
  /\ counted_ok' = [counted_ok EXCEPT ![crawl_url[w].url] = @ + 1]
  /\ save_failed' = [save_failed EXCEPT ![w] = FALSE]
  /\ pc' = [pc EXCEPT ![w] = "loop"]
  /\ UNCHANGED <<frontierVars, inputs, active, ctx, remaining, url, added, schedVars, callVars,
                 pages_failed, max_pages, seed_urls, crawl_url, exited, phase,
                 accept_count, dequeued, handed, slept, after_sleep>>

(***************************************************************************)
(* Text.  A string is the sequence of its characters; a character that no  *)
(* operation looks into stands for a run of such characters.               *)
(***************************************************************************)
RECURSIVE IndexFrom(_, _, _)
\* the least index i >= from with s[i] = c, or 0
IndexFrom(s, c, from) ==
  IF from > Len(s) THEN 0
  ELSE IF s[from] = c THEN from
  ELSE IndexFrom(s, c, from + 1)

RECURSIVE LastIndex(_, _, _)
\* the greatest index i <= upto with s[i] = c, or 0
LastIndex(s, c, upto) ==
  IF upto < 1 THEN 0
  ELSE IF s[upto] = c THEN upto
  ELSE LastIndex(s, c, upto - 1)

RECURSIVE SplitNth(_, _, _)
\* str::split(c).nth(n): the piece number n (from 0) of s cut at every c
SplitNth(s, c, n) ==
  LET i == IndexFrom(s, c, 1)
  IN  IF n = 0
      THEN [some |-> TRUE, val |-> IF i = 0 THEN s ELSE SubSeq(s, 1, i - 1)]
      ELSE IF i = 0 THEN [some |-> FALSE]
      ELSE SplitNth(SubSeq(s, i + 1, Len(s)), c, n - 1)

(***************************************************************************)
(* Stored urls and their hosts.                                            *)
(***************************************************************************)
HttpUrl(authority, path) == <<"http", ":", "/", "/">> \o authority \o <<"/">> \o path

StoreUrls ==
  { HttpUrl(<<"a.com">>, <<"x">>),
    HttpUrl(<<"a.com">>, <<"y">>),
    HttpUrl(<<"a.com", ":", "8080">>, <<"x">>),
    HttpUrl(<<"u", "@", "b.com">>, <<"x">>) }

\* url::Url::host_str of an http url: the authority is what follows "//" up
\* to the next "/"; the host is the authority without the userinfo (up to
\* the last "@") and without the port (from the ":" after the host)
host_str(u) ==
  LET rest == SubSeq(u, 5, Len(u))
      e == IndexFrom(rest, "/", 1)
      authority == IF e = 0 THEN rest ELSE SubSeq(rest, 1, e - 1)
      at == LastIndex(authority, "@", Len(authority))
      hostport == SubSeq(authority, at + 1, Len(authority))
      colon == IndexFrom(hostport, ":", 1)
  IN  IF colon = 0 THEN hostport ELSE SubSeq(hostport, 1, colon - 1)

(***************************************************************************)
(* PageRepository on the tables pages (unique in url_hash) and domains     *)
(* (unique in domain).  The SHA-256 of a url stands for the url.           *)
(***************************************************************************)
Qualities == {1, 2}

PageData(u, q) == [url |-> u, content_quality_score |-> q]

PageDatas == {PageData(u, q) : u \in StoreUrls, q \in Qualities}

\* StoredPage::from_page_data
from_page_data(page) ==
  LET third == SplitNth(page.url, "/", 2)
  IN  [url |-> page.url,
       domain |-> IF third.some THEN third.val ELSE <<"unknown">>,
       quality_score |-> page.content_quality_score]

\* SELECT AVG(quality_score) FROM pages WHERE domain = d, as sum and count
AvgQuality(rows, d) ==
  LET us == {u \in DOMAIN rows : rows[u].domain = d}
      RECURSIVE Sum(_)
      Sum(S) == IF S = {} THEN 0
                ELSE LET u == CHOOSE x \in S : TRUE
                     IN  rows[u].quality_score + Sum(S \ {u})
  IN  [sum |-> Sum(us), count |-> Cardinality(us)]

\* the INSERT .. ON CONFLICT (url_hash) DO UPDATE of save_page
UpsertPage(rows, sp) ==
  IF sp.url \in DOMAIN rows
  THEN [rows EXCEPT ![sp.url] = [@ EXCEPT !.quality_score = sp.quality_score]]
  ELSE [u \in DOMAIN rows \cup {sp.url} |->
          IF u = sp.url THEN [domain |-> sp.domain, quality_score |-> sp.quality_score]
          ELSE rows[u]]

\* PageRepository::update_domain_stats on the table pages as it is now
update_domain_stats(rows, d) ==
  IF d \in DOMAIN domains
  THEN [domains EXCEPT ![d] = [page_count |-> @.page_count + 1,
                               avg_quality_score |-> AvgQuality(rows, d)]]
  ELSE [x \in DOMAIN domains \cup {d} |->
          IF x = d THEN [page_count |-> 1, avg_quality_score |-> AvgQuality(rows, d)]
          ELSE domains[x]]

\* an empty database
RepositoryNew ==
  /\ pages = <<>>
  /\ domains = <<>>

\* PageRepository::save_page; db is where the database fails: nowhere, in
\* the statement on pages, or in the statement on domains
save_page(page, db) ==
  LET stored_page == from_page_data(page)
  IN  /\ \A d \in DOMAIN domains : domains[d].page_count < MaxSaves
      /\ IF db = "pages_err"
         THEN UNCHANGED <<pages, domains>>
         ELSE /\ pages' = UpsertPage(pages, stored_page)
              /\ IF db = "domains_err"
                 THEN UNCHANGED domains
                 ELSE domains' = update_domain_stats(pages', stored_page.domain)
      /\ UNCHANGED <<engineVars, cacheVars, fnVars, rtVars, cfgVars>>

(***************************************************************************)
(* Functions.  A specification of a function draws arg and applies the     *)
(* function to it once.                                                    *)
(***************************************************************************)
NoRet == [called |-> FALSE]

FnIdle == arg = NoRet /\ ret = NoRet

RECURSIVE Split(_, _)
\* str::split(c): the pieces of s cut at every c
Split(s, c) ==
  LET i == IndexFrom(s, c, 1)
  IN  IF i = 0 THEN <<s>>
      ELSE <<SubSeq(s, 1, i - 1)>> \o Split(SubSeq(s, i + 1, Len(s)), c)

RECURSIVE Trim(_)
\* str::trim
Trim(s) ==
  IF s = <<>> THEN s
  ELSE IF Head(s) = " " THEN Trim(Tail(s))
  ELSE IF s[Len(s)] = " " THEN Trim(SubSeq(s, 1, Len(s) - 1))
  ELSE s

\* the least index of c in s, or 0: str::find
Find(s, c) == IndexFrom(s, c, 1)

(***************************************************************************)
(* ResponseProcessor: the encoding of a response.  A body is the sequence  *)
(* of its byte runs: a byte order mark, "K" for 1024 bytes of ASCII text,  *)
(* the pieces of a meta element, other text.                               *)
(***************************************************************************)
Labels == {"utf-8", "latin1", "bogus"}

\* encoding_rs::Encoding::for_label on a trimmed label
for_label(l) ==
  IF l = <<"utf-8">> THEN [some |-> TRUE, val |-> "UTF-8"]
  ELSE IF l = <<"latin1">> THEN [some |-> TRUE, val |-> "windows-1252"]
  ELSE [some |-> FALSE]

ContentTypeHeaders ==
  {<<"text/html">>, <<"image/png">>}
    \cup {<<"text/html", ";", " ", "charset=", l>> : l \in Labels}

Boms == {<<>>, <<"EFBBBF">>}

Metas ==
  {<<>>}
    \cup {<<"<meta", " ", "charset=", l, ">">> : l \in Labels}
    \cup {<<"<meta", " ", "charset=", "\"", l, "\"", ">">> : l \in Labels}
    \cup {<<"<meta", " ", "content=", "\"", "text/html", ";", " ", "charset=", l, "\"", ">">> :
            l \in Labels}

\* UTF-8 and ASCII bodies, and UTF-16 bodies, whose text is not valid UTF-8
Bodies ==
  {bom \o pad \o meta \o <<"text">> : bom \in Boms, pad \in {<<>>, <<"K">>}, meta \in Metas}
    \cup {<<bom, "text16">> : bom \in {"FFFE", "FEFF"}}

Responses ==
  {[status |-> st, header |-> h, bytes |-> b] :
     st \in {200, 404}, h \in {[some |-> FALSE]} \cup {[some |-> TRUE, val |-> v] : v \in ContentTypeHeaders},
     b \in Bodies}

\* ResponseProcessor::extract_content_type
extract_content_type(header) ==
  IF header.some THEN Trim(Split(header.val, ";")[1]) ELSE <<"text/html">>

\* ResponseProcessor::is_allowed_content_type
is_allowed_content_type(content_type) ==
  content_type # <<>> /\ Head(content_type) \in {"text/html", "application/xhtml+xml", "text/plain"}

\* ResponseProcessor::extract_charset_content_type
extract_charset_content_type(content_type) ==
  LET parts == Split(content_type, ";")
      hits == {i \in 1..Len(parts) : Trim(parts[i]) # <<>> /\ Head(Trim(parts[i])) = "charset="}
  IN  IF hits = {} THEN [some |-> FALSE]
      ELSE LET i == CHOOSE k \in hits : \A j \in hits : k <= j
           IN  [some |-> TRUE, val |-> Trim(Tail(Trim(parts[i])))]

\* bytes[..min(len, 1024)]
First1024(bytes) ==
  LET k == Find(bytes, "K") IN IF k = 0 THEN bytes ELSE SubSeq(bytes, 1, k)

\* ResponseProcessor::detect_html_encoding
detect_html_encoding(bytes) ==
  LET text == First1024(bytes)
      start == Find(text, "charset=")
  IN  IF \E i \in 1..Len(text) : text[i] \in {"FFFE", "FEFF", "text16"} THEN [some |-> FALSE]
      ELSE IF start = 0 THEN [some |-> FALSE]
      ELSE LET charset_part == SubSeq(text, start + 1, Len(text))
               ends == <<Find(charset_part, "\""), Find(charset_part, "'"),
                         Find(charset_part, " "), Find(charset_part, ">")>>
               hit == {i \in 1..4 : ends[i] # 0}
               end == IF hit = {} THEN Len(charset_part) + 1
                      ELSE ends[CHOOSE i \in hit : \A j \in hit : i <= j]
           IN  for_label(Trim(SubSeq(charset_part, 1, end - 1)))

\* ResponseProcessor::detect_bom_encoding
detect_bom_encoding(bytes) ==
  IF bytes # <<>> /\ Head(bytes) = "EFBBBF" THEN [some |-> TRUE, val |-> "UTF-8"]
  ELSE IF bytes # <<>> /\ Head(bytes) = "FFFE" THEN [some |-> TRUE, val |-> "UTF-16LE"]
  ELSE IF bytes # <<>> /\ Head(bytes) = "FEFF" THEN [some |-> TRUE, val |-> "UTF-16BE"]
  ELSE [some |-> FALSE]

\* ResponseProcessor::detect_encoding
detect_encoding(bytes, content_type) ==
  LET charset == extract_charset_content_type(content_type)
      labelled == IF charset.some THEN for_label(charset.val) ELSE [some |-> FALSE]
  IN  IF labelled.some THEN labelled.val
      ELSE IF detect_html_encoding(bytes).some THEN detect_html_encoding(bytes).val
      ELSE IF detect_bom_encoding(bytes).some THEN detect_bom_encoding(bytes).val
      ELSE "UTF-8"

\* ResponseProcessor::decode_content: Encoding::decode decodes with the
\* encoding of the byte order mark when the bytes start with one, and the
\* name returned is that of the detected encoding
decode_content(bytes, content_type) ==
  LET encoding == detect_encoding(bytes, content_type)
      bom == detect_bom_encoding(bytes)
  IN  [decoded_with |-> IF bom.some THEN bom.val ELSE encoding, encoding |-> encoding]

\* ResponseProcessor::process_response, for a body within max_content_size
process_response(response) ==
  LET content_type == extract_content_type(response.header)
  IN  IF response.status # 200
      THEN [called |-> TRUE, ok |-> FALSE, err |-> NetError("Http", response.status, "-")]
      ELSE IF ~is_allowed_content_type(content_type)
      THEN [called |-> TRUE, ok |-> FALSE, err |-> NetError("UnsupportedContentType", 0, "-")]
      ELSE [called |-> TRUE, ok |-> TRUE, content_type |-> content_type,
            encoding |-> decode_content(response.bytes, content_type).encoding,
            decoded_with |-> decode_content(response.bytes, content_type).decoded_with]

ProcessResponse ==
  /\ ret = NoRet
  /\ ret' = process_response(arg)
  /\ UNCHANGED <<engineVars, storeVars, cacheVars, rtVars, cfgVars,
                 arg>>

(***************************************************************************)
(* SearchIndex::detect_content_language.  A content is the sequence of its *)
(* characters; a character is named by its block, with two Devanagari      *)
(* characters d1 d2 that spell a Marathi word and two Latin-1 characters   *)
(* l1 l2 that spell the first marker literal of the source.                *)
(***************************************************************************)
Chars == {"a", "l1", "l2", "d", "d1", "d2", "k", "t", "e", "m", "o"}

\* the index in char_counts a character is counted at, -1 for none
BlockOf(c) ==
  CASE c \in {"a", "l1", "l2"} -> 0
    [] c \in {"d", "d1", "d2"} -> 1
    [] c = "k" -> 2
    [] c = "t" -> 3
    [] c = "e" -> 4
    [] c = "m" -> 5
    [] OTHER -> -1

RECURSIVE SeqsUpTo(_, _)
\* the sequences over S of length at most n
SeqsUpTo(S, n) ==
  IF n = 0 THEN {<<>>}
  ELSE LET shorter == SeqsUpTo(S, n - 1)
       IN  shorter \cup {Append(x, c) : x \in shorter, c \in S}

Contents == SeqsUpTo(Chars, MaxContent)

\* str::contains
Contains(s, sub) ==
  \E i \in 1..(Len(s) - Len(sub) + 1) : SubSeq(s, i, i + Len(sub) - 1) = sub

\* the fold over content.chars(): char_counts[i] is at index i + 1
CharCounts(content) ==
  [i \in 1..7 |->
     Cardinality({j \in 1..Len(content) :
                    \/ BlockOf(content[j]) = i - 1
                    \/ i = 7 /\ BlockOf(content[j]) = 1})]

\* Iterator::max_by_key: the index of the last of the greatest elements
MaxByKey(counts) ==
  CHOOSE i \in 1..7 :
    /\ \A j \in 1..7 : counts[j] <= counts[i]
    /\ \A j \in (i + 1)..7 : counts[j] < counts[i]

detect_content_language(content) ==
  LET char_counts == CharCounts(content)
      max_idx == MaxByKey(char_counts) - 1
  IN  CASE max_idx = 1 ->
             IF char_counts[7] > char_counts[2] \div 2
             THEN IF Contains(content, <<"l1", "l2">>) THEN "mr" ELSE "hi"
             ELSE "hi"
        [] max_idx = 2 -> "kn"
        [] max_idx = 3 -> "ta"
        [] max_idx = 4 -> "te"
        [] max_idx = 5 -> "ml"
        [] max_idx = 6 -> "mr"
        [] OTHER -> "en"

DetectContentLanguage ==
  /\ ret = NoRet
  /\ ret' = [called |-> TRUE, val |-> detect_content_language(arg)]
  /\ UNCHANGED <<engineVars, storeVars, cacheVars, rtVars, cfgVars,
                 arg>>

(***************************************************************************)
(* SnippetGenerator.  A text is the sequence of its characters: "x" a      *)
(* letter, "W" a letter of three bytes, " " whitespace, "T" and "t", "E"   *)
(* and "e" letters in both cases, "*" and "." punctuation.                 *)
(***************************************************************************)
context_chars == 80

Width(c) == IF c = "W" THEN 3 ELSE 1

\* str::len: the length in bytes, Width(c) for each character c
ByteLen(s) == Len(s) + (Width("W") - 1) * Cardinality({i \in 1..Len(s) : s[i] = "W"})

LowerChar(c) == IF c = "T" THEN "t" ELSE IF c = "E" THEN "e" ELSE c

\* str::to_lowercase
to_lowercase(s) == [i \in 1..Len(s) |-> LowerChar(s[i])]

is_whitespace(c) == c = " "

\* F applied to the value of e, e evaluated once
Bind(e, F(_)) == CHOOSE y \in {F(x) : x \in {e}} : TRUE

\* the least and the greatest element of a set of numbers, -1 of the empty set
MinOf(S) == Bind(S, LAMBDA T : IF T = {} THEN -1 ELSE CHOOSE i \in T : \A j \in T : i <= j)

MaxOf(S) == Bind(S, LAMBDA T : IF T = {} THEN -1 ELSE CHOOSE i \in T : \A j \in T : i >= j)

\* the number of characters before the first occurrence of sub in s, or -1
FindChars(s, sub) ==
  Bind(<<s, sub>>, LAMBDA a :
    MinOf({i \in 0..(Len(a[1]) - Len(a[2])) : SubSeq(a[1], i + 1, i + Len(a[2])) = a[2]}))

\* str::find(&str): the byte index of the first occurrence of sub in s
FindBytes(s, sub) ==
  Bind(FindChars(s, sub), LAMBDA i :
    IF i = -1 THEN [some |-> FALSE] ELSE [some |-> TRUE, val |-> ByteLen(SubSeq(s, 1, i))])

\* str::trim_start
TrimStart(s) ==
  Bind(MinOf({i \in 1..Len(s) : ~is_whitespace(s[i])}), LAMBDA first :
    IF first = -1 THEN <<>> ELSE SubSeq(s, first, Len(s)))

Run(c, n) == [i \in 1..n |-> c]

Term == <<"t", "e">>

SnippetContents ==
  {<<>>, Run("x", 3)}
    \cup {Run(f, a) \o s1 \o Run("x", b) \o occ \o Run("x", c) \o s2 \o Run("x", d) :
            f \in {"x", "W"}, a \in {0, 10}, s1 \in {<<>>, <<" ">>}, b \in {0, 5, 45},
            occ \in {<<"T", "e">>}, c \in {0, 5, 45}, s2 \in {<<>>, <<" ">>}, d \in {0, 10}}

SnippetInputs ==
  {[content |-> c, query_terms |-> q, highlight |-> h] :
     c \in SnippetContents, q \in {<<Term>>, <<Run("x", 2), Term>>}, h \in BOOLEAN}

RECURSIVE HighlightOne(_, _)
\* the matches of one term, from the left and not overlapping, set in "**"
HighlightOne(text, term_lower) ==
  Bind(FindChars(to_lowercase(text), term_lower), LAMBDA start :
    IF term_lower = <<>> \/ start = -1 THEN text
    ELSE SubSeq(text, 1, start) \o <<"*", "*">>
           \o SubSeq(text, start + 1, start + Len(term_lower)) \o <<"*", "*">>
           \o HighlightOne(SubSeq(text, start + Len(term_lower) + 1, Len(text)), term_lower))

RECURSIVE highlight_terms(_, _)
\* SnippetGenerator::highlight_terms
highlight_terms(text, query_terms) ==
  IF query_terms = <<>> THEN text
  ELSE Bind(HighlightOne(text, to_lowercase(Head(query_terms))), LAMBDA marked :
         highlight_terms(marked, Tail(query_terms)))

\* the earliest byte position at which a term occurs in the lowercased
\* content, none when no term occurs
BestPosition(content, query_terms) ==
  Bind(to_lowercase(content), LAMBDA content_lower :
    Bind({FindChars(content_lower, to_lowercase(query_terms[k])) : k \in 1..Len(query_terms)}
           \ {-1},
         LAMBDA found : IF found = {} THEN [some |-> FALSE]
                        ELSE [some |-> TRUE, val |-> ByteLen(SubSeq(content_lower, 1, MinOf(found)))]))

\* the characters start_char .. end_char - 1 of the content around the byte
\* position, and whether the window starts after and ends before the ends
\* of the content
Window(content, position) ==
  Bind(MinOf({i \in 0..(Len(content) - 1) : ByteLen(SubSeq(content, 1, i)) >= position}),
       LAMBDA first :
    LET n == Len(content)
        target_char_idx == IF first = -1 THEN 0 ELSE first
        half == context_chars \div 2
        start_char == IF target_char_idx > half THEN target_char_idx - half ELSE 0
        end_char == IF start_char + context_chars < n THEN start_char + context_chars ELSE n
        start_byte == IF start_char > 0 THEN ByteLen(SubSeq(content, 1, start_char)) ELSE 0
        end_byte == IF end_char < n THEN ByteLen(SubSeq(content, 1, end_char))
                    ELSE ByteLen(content)
    IN  [snippet |-> SubSeq(content, start_char + 1, end_char),
         cut_start |-> start_byte > 0, cut_end |-> end_byte < ByteLen(content)])

\* if start_byte > 0: the snippet from its first whitespace on, trimmed, after "..."
TrimToWordStart(w) ==
  Bind(MinOf({i \in 1..Len(w.snippet) : is_whitespace(w.snippet[i])}), LAMBDA space_pos :
    IF w.cut_start /\ space_pos # -1
    THEN <<".", ".", ".">> \o TrimStart(SubSeq(w.snippet, space_pos, Len(w.snippet)))
    ELSE w.snippet)

\* if end_byte < content.len(): the snippet up to its last whitespace, before "..."
TrimToWordEnd(snippet, cut_end) ==
  Bind(MaxOf({i \in 1..Len(snippet) : is_whitespace(snippet[i])}), LAMBDA space_pos :
    IF cut_end /\ space_pos # -1
    THEN SubSeq(snippet, 1, space_pos - 1) \o <<".", ".", ".">>
    ELSE snippet)

\* SnippetGenerator::generate
generate(content, query_terms, highlight) ==
  IF content = <<>> THEN <<"No content available">>
  ELSE
    Bind(BestPosition(content, query_terms), LAMBDA best_position :
      Bind(Window(content, IF best_position.some THEN best_position.val ELSE 0), LAMBDA w :
        Bind(TrimToWordStart(w), LAMBDA front :
          Bind(TrimToWordEnd(front, w.cut_end), LAMBDA snippet :
            IF highlight THEN highlight_terms(snippet, query_terms) ELSE snippet))))

Generate ==
  /\ ret = NoRet
  /\ ret' = [called |-> TRUE, val |-> generate(arg.content, arg.query_terms, arg.highlight)]
  /\ UNCHANGED <<engineVars, storeVars, cacheVars, rtVars, cfgVars,
                 arg>>

(***************************************************************************)
(* MemoryCache.  A key of page_cache is the pair of the literal prefix of  *)
(* its format! string and the formatted value.  page_cache is the set of   *)
(* the entries [key, value] of the moka cache, one for a key at most.      *)
(***************************************************************************)
PageIds == {1, 2}

PageUrls == {"https://a.com", "https://b.com"}

\* StoredPage, by the fields the cache reads
StoredPages == [id : PageIds, url : PageUrls]

\* format!("Page: {}", page_id)
PageIdKey(page_id) == <<"Page: ", page_id>>

\* format!("URL: {}", page.url)
PageUrlKey(u) == <<"URL: ", u>>

\* format!("url : {}", url)
UrlLookupKey(u) == <<"url : ", u>>

CacheKeys ==
  {PageIdKey(i) : i \in PageIds} \cup {PageUrlKey(u) : u \in PageUrls}
    \cup {UrlLookupKey(u) : u \in PageUrls}

None == [some |-> FALSE]

Some(v) == [some |-> TRUE, val |-> v]

\* moka Cache::insert
CacheInsert(cache, k, v) == {e \in cache : e.key # k} \cup {[key |-> k, value |-> v]}

\* moka Cache::get
CacheGet(cache, k) ==
  IF \E e \in cache : e.key = k THEN Some((CHOOSE e \in cache : e.key = k).value) ELSE None

\* moka Cache::invalidate
CacheInvalidate(cache, k) == {e \in cache : e.key # k}

\* the keys under which cache_page and the lookups know page p
KeysOf(p) == {PageIdKey(p.id), PageUrlKey(p.url), UrlLookupKey(p.url)}

MemoryCacheNew == page_cache = {} /\ live = {}

cache_page(page) ==
  /\ page_cache' = CacheInsert(CacheInsert(page_cache, PageIdKey(page.id), page),
                               PageUrlKey(page.url), page)
  /\ live' = {q \in live : q.id # page.id /\ q.url # page.url} \cup {page}
  /\ ret' = [called |-> TRUE, op |-> "cache_page"]
  /\ UNCHANGED <<engineVars, storeVars, rtVars, cfgVars, arg>>

get_page_by_id(page_id) ==
  /\ ret' = [called |-> TRUE, op |-> "get_page_by_id", key |-> page_id,
             val |-> CacheGet(page_cache, PageIdKey(page_id))]
  /\ UNCHANGED <<engineVars, storeVars, cacheVars, rtVars, cfgVars,
                 arg>>

get_page_by_url(u) ==
  /\ ret' = [called |-> TRUE, op |-> "get_page_by_url", key |-> u,
             val |-> CacheGet(page_cache, UrlLookupKey(u))]
  /\ UNCHANGED <<engineVars, storeVars, cacheVars, rtVars, cfgVars,
                 arg>>

invalidate(k) ==
  /\ page_cache' = CacheInvalidate(page_cache, k)
  /\ live' = {q \in live : k \notin KeysOf(q)}
  /\ ret' = [called |-> TRUE, op |-> "invalidate"]
  /\ UNCHANGED <<engineVars, storeVars, rtVars, cfgVars, arg>>

clear_all ==
  /\ page_cache' = {}
  /\ live' = {}
  /\ ret' = [called |-> TRUE, op |-> "clear_all"]
  /\ UNCHANGED <<engineVars, storeVars, rtVars, cfgVars, arg>>

\* the time to live of the entry of key k has passed
Expire(k) ==
  /\ \E e \in page_cache : e.key = k
  /\ page_cache' = CacheInvalidate(page_cache, k)
  /\ live' = {q \in live : k \notin KeysOf(q)}
  /\ ret' = [called |-> TRUE, op |-> "expire"]
  /\ UNCHANGED <<engineVars, storeVars, rtVars, cfgVars, arg>>

NextMemoryCache ==
  \/ \E page \in StoredPages : cache_page(page)
  \/ \E page_id \in PageIds : get_page_by_id(page_id)
  \/ \E u \in PageUrls : get_page_by_url(u)
  \/ \E k \in CacheKeys : invalidate(k)
  \/ clear_all
  \/ \E k \in CacheKeys : Expire(k)

(***************************************************************************)
(* SearchQuery.  A score is a whole number of units of 2^-29; the values   *)
(* of the documents are chosen so that each f64 operation of the score     *)
(* fusion is exact.  A url is the sequence of its parts.                   *)
(***************************************************************************)
\* as f32: the nearest number of 24 significant bits, ties to the even one
RECURSIVE Quantum(_, _)
Quantum(x, q) == IF x \div q < 16777216 THEN q ELSE Quantum(x, 2 * q)

as_f32(x) ==
  LET q == Quantum(x, 1)
      lo == x \div q
      rem == x % q
  IN  IF 2 * rem < q \/ (2 * rem = q /\ lo % 2 = 0) THEN q * lo ELSE q * (lo + 1)

SearchUrls ==
  {<<"https://a.com/wiki/X">>,
   <<"https://a.com/wiki/X", "#", "History">>,
   <<"https://b.com/w?title=X&", "action=edit", "#", "top">>}

\* the field domain of the document of a url
DomainOfUrl(u) == IF u[1] = "https://b.com/w?title=X&" THEN "b.com" ELSE "a.com"

\* tantivy_score: numbers an f32 holds, about 1.67
Relevances == {894785600, 894784000}

\* the field pagerank, differences of 2^-27
PageRanks == {0, 4}

\* the field tfidf, differences of 2^-26
TfIdfs == {0, 8}

SearchQualities == {1, 2}

\* a retrieved document with its tantivy_score
Hits ==
  {[url |-> u, domain |-> DomainOfUrl(u), relevance |-> r, pagerank |-> p, tfidf |-> t,
    quality_score |-> q] :
     u \in SearchUrls, r \in Relevances, p \in PageRanks, t \in TfIdfs, q \in SearchQualities}

\* what TopDocs collects: the documents by tantivy_score, descending
TopDocsOrders == {d \in Hits \X Hits : d[2].relevance <= d[1].relevance}

\* SearchFilter, None a filter that is not set
SearchFilters ==
  {[domain |-> None, min_quality |-> None, max_quality |-> None],
   [domain |-> Some("a.com"), min_quality |-> None, max_quality |-> None],
   [domain |-> None, min_quality |-> Some(2), max_quality |-> None],
   [domain |-> None, min_quality |-> None, max_quality |-> Some(1)]}

SortBys == {"Relevance", "Quality", "PageRank", "TfIdf", "Date"}

SearchInputs ==
  {[docs |-> d, limit |-> page[1], filters |-> f, sort_by |-> k, offset |-> page[2]] :
     d \in TopDocsOrders, page \in {<<2, 0>>, <<1, 0>>, <<1, 1>>}, f \in SearchFilters,
     k \in SortBys}

has_filters(filters) ==
  filters.domain.some \/ filters.min_quality.some \/ filters.max_quality.some

\* SearchQuery::utility_penalty, in twentieths
utility_penalty(u) ==
  IF Contains(u, <<"action=edit">>) \/ Contains(u, <<"action=history">>)
       \/ Contains(u, <<"/Special:">>)
  THEN 17
  ELSE IF Contains(u, <<"#">>) THEN 19 ELSE 20

\* ((tantivy_score * 0.6) + (pagerank * 100 * 0.25) + (tfidf * 100 * 0.15)) * penalty
combined_score(h) ==
  ((3 * (h.relevance \div 5) + 25 * h.pagerank + 15 * h.tfidf) \div 20) * utility_penalty(h.url)

\* the SearchResult of a hit that passes the filters; relevance is kept
\* for the properties
SearchResultOf(h) ==
  [url |-> h.url, domain |-> h.domain, quality_score |-> h.quality_score,
   score |-> as_f32(combined_score(h)), pagerank |-> h.pagerank, tfidf |-> h.tfidf,
   relevance |-> h.relevance]

Passes(h, filters) ==
  /\ filters.domain.some => h.domain = filters.domain.val
  /\ filters.min_quality.some => ~(h.quality_score < filters.min_quality.val)
  /\ filters.max_quality.some => ~(h.quality_score > filters.max_quality.val)

RECURSIVE CollectResults(_, _)
CollectResults(top_docs, filters) ==
  IF top_docs = <<>> THEN <<>>
  ELSE (IF Passes(Head(top_docs), filters) THEN <<SearchResultOf(Head(top_docs))>> ELSE <<>>)
         \o CollectResults(Tail(top_docs), filters)

\* the key each SortBy compares
SortKey(sort_by, r) ==
  CASE sort_by = "Relevance" -> r.score
    [] sort_by = "Quality" -> r.quality_score
    [] sort_by = "PageRank" -> r.pagerank
    [] sort_by = "TfIdf" -> r.tfidf
    [] OTHER -> 0

RECURSIVE InsertDescending(_, _, _)
InsertDescending(sorted, r, sort_by) ==
  IF sorted = <<>> THEN <<r>>
  ELSE IF SortKey(sort_by, Head(sorted)) >= SortKey(sort_by, r)
  THEN <<Head(sorted)>> \o InsertDescending(Tail(sorted), r, sort_by)
  ELSE <<r>> \o sorted

RECURSIVE SortDescending(_, _)
\* slice::sort_by, a stable sort, with the comparison b.key.partial_cmp(&a.key)
SortDescending(results, sort_by) ==
  IF results = <<>> THEN <<>>
  ELSE InsertDescending(SortDescending(SubSeq(results, 1, Len(results) - 1), sort_by),
                        results[Len(results)], sort_by)

\* SearchQuery::search_with_filters
search_with_filters(docs, limit, filters, sort_by, offset) ==
  LET fetch_limit == IF has_filters(filters) THEN (limit + offset) * 10 ELSE limit + offset
      top_docs == SubSeq(docs, 1, IF fetch_limit < Len(docs) THEN fetch_limit ELSE Len(docs))
      results == CollectResults(top_docs, filters)
      sorted == IF sort_by = "Date" THEN results ELSE SortDescending(results, sort_by)
      last == IF offset + limit < Len(sorted) THEN offset + limit ELSE Len(sorted)
  IN  SubSeq(sorted, offset + 1, last)

SearchWithFilters ==
  /\ ret = NoRet
  /\ ret' = [called |-> TRUE,
             val |-> search_with_filters(arg.docs, arg.limit, arg.filters, arg.sort_by,
                                         arg.offset)]
  /\ UNCHANGED <<engineVars, storeVars, cacheVars, rtVars, cfgVars,
                 arg>>

\* the pages of a result list: the index of two documents, read with one
\* query, filter and sort key and the page size limit at the offsets 0, limit,
\* 2 * limit, ...
PageOffsets(limit) == {k * limit : k \in 0..MaxPageNo}

PaginationInputs ==
  {[docs |-> d, limit |-> l, filters |-> f, sort_by |-> k] :
     d \in {x \in TopDocsOrders : x[1].url # x[2].url}, l \in 1..2, f \in SearchFilters,
     k \in SortBys}

\* Commands::Search, once for each page
SearchPages ==
  /\ ret = NoRet
  /\ ret' = [called |-> TRUE,
             val |-> [o \in PageOffsets(arg.limit) |->
                        search_with_filters(arg.docs, arg.limit, arg.filters, arg.sort_by, o)]]
  /\ UNCHANGED <<engineVars, storeVars, cacheVars, rtVars, cfgVars,
                 arg>>

(***************************************************************************)
(* PageRankCalculator.  An f64 is a whole number of millionths; every      *)
(* operation rounds its result down to a millionth.                        *)
(***************************************************************************)
\* 1.0
One == 1000000

damping_factor == 850000

iterations == 30

convergence_threshold == 100

\* a * b
MulFix(a, b) == ((a \div 1000) * b) \div 1000 + ((a % 1000) * b) \div One

\* a / b
DivFix(a, b) ==
  LET r1 == a % b
      r2 == (r1 * 1000) % b
  IN  (a \div b) * One + ((r1 * 1000) \div b) * 1000 + (r2 * 1000) \div b

AbsDiff(a, b) == IF a < b THEN b - a ELSE a - b

RECURSIVE SumOver(_, _)
\* the sum of f[x] over the x of S
SumOver(f, S) ==
  IF S = {} THEN 0
  ELSE Bind(CHOOSE x \in S : TRUE, LAMBDA x : f[x] + SumOver(f, S \ {x}))

GraphUrls == {"A", "B", "C"}

\* LinkGraph::from_database: the nodes are the stored urls, the links the
\* distinct pairs of stored urls
LinkGraphs ==
  UNION {{[nodes |-> n, links |-> l] : l \in SUBSET (n \X n)} : n \in SUBSET GraphUrls}

inbounds(graph, u) == {l[1] : l \in {k \in graph.links : k[2] = u}}

outbound_count(graph, u) == Cardinality({l \in graph.links : l[1] = u})

dangling_nodes(graph) == {u \in graph.nodes : outbound_count(graph, u) = 0}

\* one pass of the loop over graph.nodes: new_ranks and total_diff
RankPass(graph, ranks) ==
  LET n == Cardinality(graph.nodes)
      share == [src \in graph.nodes |->
                  IF outbound_count(graph, src) > 0
                  THEN ranks[src] \div outbound_count(graph, src) ELSE 0]
      new_ranks == [u \in graph.nodes |->
                      (One - damping_factor) \div n
                        + MulFix(damping_factor, SumOver(share, inbounds(graph, u)))]
  IN  Bind(new_ranks, LAMBDA nr :
        [ranks |-> nr,
         total_diff |-> SumOver([u \in graph.nodes |-> AbsDiff(nr[u], ranks[u])], graph.nodes)])

RECURSIVE RankLoop(_, _, _)
\* for iteration in 0..self.iterations, left at convergence
RankLoop(graph, ranks, iteration) ==
  IF iteration = iterations THEN ranks
  ELSE Bind(RankPass(graph, ranks), LAMBDA pass :
         IF pass.total_diff < convergence_threshold THEN pass.ranks
         ELSE RankLoop(graph, pass.ranks, iteration + 1))

\* the ranks before the normalization
IteratedRanks(graph) ==
  RankLoop(graph, [u \in graph.nodes |-> One \div Cardinality(graph.nodes)], 0)

NormalizeSkipped(ranks) == ranks

\* Normalize ranks (sum to 1.0)
Normalize(ranks) ==
  Bind(SumOver(ranks, DOMAIN ranks), LAMBDA sum :
    IF sum > 0 THEN [u \in DOMAIN ranks |-> DivFix(ranks[u], sum)] ELSE ranks)

\* PageRankCalculator::calculate
calculate(graph) ==
  IF Cardinality(graph.nodes) = 0 THEN << >>
  ELSE Bind(IteratedRanks(graph), LAMBDA ranks : Normalize(ranks))

Calculate ==
  /\ ret = NoRet
  /\ ret' = [called |-> TRUE, val |-> calculate(arg)]
  /\ UNCHANGED <<engineVars, storeVars, cacheVars, rtVars, cfgVars,
                 arg>>

(***************************************************************************)
(* TfIdfCalculator.  A content is the sequence of its whitespace-separated *)
(* words.                                                                  *)
(***************************************************************************)
STOP_WORDS == {"the", "a", "an", "and"}

TfWords == {"web", "Web,", "the", "go", "crawler"}

WordLower(w) == IF w = "Web," THEN "web," ELSE w

\* str::len of a lowercased word
WordLen(w) ==
  CASE w = "go" -> 2 [] w = "web" -> 3 [] w = "the" -> 3 [] w = "web," -> 4 [] OTHER -> 7

\* trim_matches(|c| !c.is_alphanumeric())
TrimMatches(w) == IF w = "web," THEN "web" ELSE w

RECURSIVE SelectWords(_)
SelectWords(words) ==
  IF words = <<>> THEN <<>>
  ELSE LET w == WordLower(Head(words))
           t == TrimMatches(w)
       IN  (IF WordLen(w) > 2 /\ t # "" /\ t \notin STOP_WORDS THEN <<t>> ELSE <<>>)
             \o SelectWords(Tail(words))

\* TfIdfCalculator::tokenize
tokenize(text) == SelectWords(text)

\* TfIdfCalculator::count_terms: the count of each term that occurs
count_terms(terms) ==
  [t \in {terms[i] : i \in 1..Len(terms)} |->
     Cardinality({i \in 1..Len(terms) : terms[i] = t})]

TfContents ==
  {<<>>, <<"web">>, <<"Web,", "web">>, <<"the", "crawler">>, <<"go", "web", "crawler">>}

TfDocuments == {<<d, c>> : d \in {"doc1", "doc2"}, c \in TfContents}

\* the corpora of up to MaxDocs documents
Corpora == UNION {[1..n -> TfDocuments] : n \in 0..MaxDocs}

TfTerms == {"web", "crawler", "the"}

\* TfIdfCalculator::new; a map holds 0 for a key it does not have
TfIdfCalculatorNew ==
  [document_freq |-> [t \in TfTerms |-> 0], doc_lengths |-> << >>, total_docs |-> 0]

\* a document whose terms add their number of occurrences to document_freq
AddDocumentByCount(calc, doc) ==
  LET terms == tokenize(doc[2])
      term_counts == count_terms(terms)
  IN  [calc EXCEPT
         !.doc_lengths = [d \in DOMAIN calc.doc_lengths \cup {doc[1]} |->
                            IF d = doc[1] THEN Len(terms) ELSE calc.doc_lengths[d]],
         !.document_freq = [t \in TfTerms |->
                              IF t \in DOMAIN term_counts THEN @[t] + term_counts[t] ELSE @[t]]]

\* the body of the loop over documents
AddDocument(calc, doc) ==
  LET terms == tokenize(doc[2])
      term_counts == count_terms(terms)
  IN  [calc EXCEPT
         !.doc_lengths = [d \in DOMAIN calc.doc_lengths \cup {doc[1]} |->
                            IF d = doc[1] THEN Len(terms) ELSE calc.doc_lengths[d]],
         !.document_freq = [t \in TfTerms |->
                              IF t \in DOMAIN term_counts THEN @[t] + 1 ELSE @[t]]]

RECURSIVE AddDocuments(_, _)
AddDocuments(calc, documents) ==
  IF documents = <<>> THEN calc
  ELSE Bind(AddDocument(calc, Head(documents)), LAMBDA c : AddDocuments(c, Tail(documents)))

\* TfIdfCalculator::build_from_corpus
build_from_corpus(calc, documents) ==
  AddDocuments([calc EXCEPT !.total_docs = Len(documents)], documents)

\* f64::ln of a whole number, in thousandths
LnOf(k) ==
  CASE k = 1 -> 0 [] k = 2 -> 693 [] k = 3 -> 1098 [] k = 4 -> 1386 [] k = 5 -> 1609
    [] k = 6 -> 1791 [] k = 7 -> 1945 [] OTHER -> 2079

\* TfIdfCalculator::calculate_idf, in thousandths
calculate_idf(calc, term) ==
  IF term \in DOMAIN calc.document_freq /\ calc.document_freq[term] > 0
  THEN LnOf(calc.total_docs) - LnOf(calc.document_freq[term])
  ELSE 0

\* main: a new calculator is built from the corpus
BuildFromCorpus ==
  /\ ret = NoRet
  /\ ret' = [called |-> TRUE, op |-> "build_from_corpus",
             calc |-> build_from_corpus(TfIdfCalculatorNew, arg)]
  /\ UNCHANGED <<engineVars, storeVars, cacheVars, rtVars, cfgVars,
                 arg>>

CalculateIdf(term) ==
  /\ ret # NoRet
  /\ ret' = [called |-> TRUE, op |-> "calculate_idf", calc |-> ret.calc, term |-> term,
             val |-> calculate_idf(ret.calc, term)]
  /\ UNCHANGED <<engineVars, storeVars, cacheVars, rtVars, cfgVars,
                 arg>>

NextTfIdf ==
  \/ BuildFromCorpus
  \/ \E term \in TfTerms \cup {"engine"} : CalculateIdf(term)

(***************************************************************************)
(* The tokio runtime the tasks run on, and the shards of domain_delays.    *)
(* #[tokio::main] builds a runtime with one executor thread per core,      *)
(* #[tokio::test] one with a single thread; DashMap::new() builds a map of *)
(* as many shards as four times the cores, and a key's shard is its hash.  *)
(***************************************************************************)
RuntimeNew(threads, shared) ==
  /\ worker_threads = threads
  /\ same_shard = shared

\* a runtime with a thread for every task, and a shard for every domain
RuntimeIdle == RuntimeNew(Cardinality(Procs), FALSE)

\* CrawlerSettings: the field max_depth, which no code of the crawler reads
ConfigNew(depth) == max_depth = depth

\* CrawlerConfig::default
ConfigDefault == ConfigNew(3)

\* the components a specification does not use
ExtInit == RepositoryNew /\ MemoryCacheNew /\ FnIdle /\ RuntimeIdle /\ ConfigDefault

(***************************************************************************)
(* A crawl: crawl_internal with its workers.                               *)
(***************************************************************************)
SeedLists == {<<>>, <<"http://a/">>, <<"http://a/", "http://b/">>, <<BadUrl>>,
              <<"http://a/", BadUrl>>}

MainStep(p) ==
  \/ StartCrawling(p)
  \/ SpawnWorkers(p)
  \/ JoinWorkers(p)

FrontierStep(p) ==
  \/ \E u \in NextInput(p) : AddUrlCheck(p, u)
  \/ AddUrlLocked(p)
  \/ NextUrl(p)

\* the behaviours of fetch_and_process_page as the task of schedule_crawl
FetchTasks == {t \in Tasks : t.error \in {NoError, NetError("Timeout", 0, "-")}}

SchedulerStep(p) ==
  \/ AcquirePermit(p)
  \/ RespectDomainDelay(p)
  \/ DelaySlept(p)
  \/ \E t \in FetchTasks : InsertDelay(p, t)
  \/ TaskAttempt(p)
  \/ RetrySlept(p)

WorkerStep(p) ==
  \/ WorkerLoop(p)
  \/ WorkerGraceSleep(p)
  \/ WorkerDequeued(p)
  \/ \E n \in 0..MaxBatch, save_ok \in BOOLEAN : WorkerScheduled(p, n, save_ok)
  \/ WorkerPageOk(p)

NextCrawl ==
  \/ \E p \in Procs : MainStep(p) \/ FrontierStep(p) \/ SchedulerStep(p) \/ WorkerStep(p)
  \/ Tick

InitCrawl ==
  \E n \in 1..Len(WorkerNames), budget \in 1..MaxPages, seeds \in SeedLists, r \in 0..MaxRetries :
    /\ FrontierNew(budget * 10)
    /\ ProcInit({"main"} \cup Workers(n), {})
    /\ SchedulerNew(n, r, 1)
    /\ CallInit
    /\ CrawlerNew(budget, seeds)
    /\ HistInit
    /\ ExtInit

SpecCrawl == InitCrawl /\ [][NextCrawl]_vars

\* a crawl from one seed under a configured max_depth
InitCrawlDepth ==
  \E n \in 1..Len(WorkerNames), depth \in 0..MaxDepth :
    /\ FrontierNew(MaxPages * 10)
    /\ ProcInit({"main"} \cup Workers(n), {})
    /\ SchedulerNew(n, MaxRetries, 1)
    /\ CallInit
    /\ CrawlerNew(MaxPages, <<"http://a/">>)
    /\ HistInit
    /\ RepositoryNew /\ MemoryCacheNew /\ FnIdle /\ RuntimeIdle
    /\ ConfigNew(depth)

SpecCrawlDepth == InitCrawlDepth /\ [][NextCrawl]_vars

\* every task that can take a step eventually takes one
FairSpecCrawl ==
  SpecCrawl /\ \A p \in Procs :
                 WF_vars(MainStep(p) \/ FrontierStep(p) \/ SchedulerStep(p) \/ WorkerStep(p))
            /\ WF_vars(Tick)

(***************************************************************************)
(* The scheduler under concurrent schedule_crawl calls.                    *)
(***************************************************************************)
NextScheduler ==
  \/ \E p \in Procs, d \in Domains : ScheduleCrawlCall(p, d)
  \/ \E p \in Procs : AcquirePermit(p)
  \/ \E p \in Procs : RespectDomainDelay(p)
  \/ \E p \in Procs : DelaySlept(p)
  \/ \E p \in Procs, t \in Tasks : InsertDelay(p, t)
  \/ \E p \in Procs : TaskAttempt(p)
  \/ \E p \in Procs : RetrySlept(p)
  \/ Tick

InitScheduler ==
  /\ FrontierNew(1)
  /\ ProcInit({"t1", "t2"}, {})
  /\ \E n \in 1..MaxPermits, r \in 0..MaxRetries : SchedulerNew(n, r, 1)
  /\ CallInit
  /\ CrawlerNew(1, <<>>)
  /\ HistInit
  /\ ExtInit

SpecScheduler == InitScheduler /\ [][NextScheduler]_vars

\* the scheduler under the calls of one task, one call after the other
InitSchedulerSeq ==
  /\ FrontierNew(1)
  /\ ProcInit({"t1"}, {})
  /\ \E n \in 1..MaxPermits, r \in 0..MaxRetries, d \in 0..MaxDelay : SchedulerNew(n, r, d)
  /\ CallInit
  /\ CrawlerNew(1, <<>>)
  /\ HistInit
  /\ ExtInit

SpecSchedulerSeq == InitSchedulerSeq /\ [][NextScheduler]_vars

(***************************************************************************)
(* The scheduler under concurrent schedule_crawl calls of tasks that share *)
(* the executor threads of the runtime.  A task leaves its thread where it *)
(* awaits: the permit, the sleeps and the task.  Between the awaits, from  *)
(* the permit to the sleep or to the task, it keeps its thread, also while *)
(* insert waits for the lock of the shard.                                 *)
(***************************************************************************)
OnThread(q) == pc[q] \in {"delay", "delay_insert"}

\* the runtime polls the task of p: on the thread p has, or on a free one
Polled(p) == OnThread(p) \/ Cardinality({q \in Procs \ {p} : OnThread(q)}) < worker_threads

NextSchedulerPool ==
  \/ \E p \in Procs, d \in Domains : Polled(p) /\ ScheduleCrawlCall(p, d)
  \/ \E p \in Procs : Polled(p) /\ AcquirePermit(p)
  \/ \E p \in Procs : Polled(p) /\ RespectDomainDelay(p)
  \/ \E p \in Procs : Polled(p) /\ DelaySlept(p)
  \/ \E p \in Procs, t \in FetchTasks : Polled(p) /\ InsertDelay(p, t)
  \/ \E p \in Procs : Polled(p) /\ TaskAttempt(p)
  \/ \E p \in Procs : Polled(p) /\ RetrySlept(p)
  \/ Tick

InitSchedulerPool ==
  /\ FrontierNew(1)
  /\ ProcInit({"t1", "t2"}, {})
  /\ \E n \in 1..MaxPermits, r \in {0, MaxRetries}, d \in 1..MaxDelay : SchedulerNew(n, r, d)
  /\ CallInit
  /\ CrawlerNew(1, <<>>)
  /\ HistInit
  /\ RepositoryNew /\ MemoryCacheNew /\ FnIdle /\ ConfigDefault
  /\ \E threads \in 1..MaxThreads, shared \in BOOLEAN : RuntimeNew(threads, shared)

SpecSchedulerPool == InitSchedulerPool /\ [][NextSchedulerPool]_vars

(***************************************************************************)
(* The frontier under calls of its operations: by one task, one call after *)
(* the other (SpecFrontierSeq, SpecFrontierAdd), and by concurrent tasks   *)
(* (SpecFrontier).                                                         *)
(***************************************************************************)
NextFrontier ==
  \/ \E p \in Procs : AddUrlCall(p)
  \/ \E p \in Procs, n \in 0..MaxBatch : AddUrlsCall(p, n)
  \/ \E p \in Procs : \E u \in NextInput(p) : AddUrlCheck(p, u)
  \/ \E p \in Procs : AddUrlLocked(p)
  \/ \E p \in Procs : NextUrl(p)
  \/ \E p \in Procs, u \in MarkedUrls : MarkCrawled(p, u)

InitFrontierSeq ==
  /\ \E cap \in 1..MaxQueueSize : FrontierNew(cap)
  /\ ProcInit({"t1"}, CrawlUrls)
  /\ SchedulerNew(1, 0, 0)
  /\ CallInit
  /\ CrawlerNew(1, <<>>)
  /\ HistInit
  /\ ExtInit

\* the records a caller of add_url alone submits: every url at each priority
AddInputs == {CrawlUrl(u, p, 0, 0) : u \in Urls, p \in Priorities}

InitFrontierAdd ==
  /\ \E cap \in 1..MaxQueueSize : FrontierNew(cap)
  /\ ProcInit({"t1"}, AddInputs)
  /\ SchedulerNew(1, 0, 0)
  /\ CallInit
  /\ CrawlerNew(1, <<>>)
  /\ HistInit
  /\ ExtInit

InitFrontier ==
  /\ \E cap \in 1..MaxQueueSize : FrontierNew(cap)
  /\ ProcInit({"t1", "t2"}, ConcurrentInputs)
  /\ SchedulerNew(1, 0, 0)
  /\ CallInit
  /\ CrawlerNew(1, <<>>)
  /\ HistInit
  /\ ExtInit

SpecFrontierSeq == InitFrontierSeq /\ [][NextFrontier]_vars

SpecFrontierAdd == InitFrontierAdd /\ [][NextFrontier]_vars

SpecFrontier == InitFrontier /\ [][NextFrontier]_vars

(***************************************************************************)
(* The repository under save_page calls, one after the other.              *)
(***************************************************************************)
\* the crawl engine at rest
EngineIdle ==
  /\ RuntimeIdle
  /\ ConfigDefault
  /\ FrontierNew(1)
  /\ ProcInit({}, {})
  /\ SchedulerNew(1, 0, 0)
  /\ CallInit
  /\ CrawlerNew(1, <<>>)
  /\ HistInit

NextRepository ==
  \E page \in PageDatas, db \in {"ok", "pages_err", "domains_err"} : save_page(page, db)

InitRepository == EngineIdle /\ RepositoryNew /\ MemoryCacheNew /\ FnIdle

SpecRepository == InitRepository /\ [][NextRepository]_vars

(***************************************************************************)
(* The functions, each applied to one argument.                            *)
(***************************************************************************)
InitResponse == EngineIdle /\ RepositoryNew /\ MemoryCacheNew /\ arg \in Responses /\ ret = NoRet

SpecResponse == InitResponse /\ [][ProcessResponse]_vars

InitLanguage == EngineIdle /\ RepositoryNew /\ MemoryCacheNew /\ arg \in Contents /\ ret = NoRet

SpecLanguage == InitLanguage /\ [][DetectContentLanguage]_vars

InitSnippet == EngineIdle /\ RepositoryNew /\ MemoryCacheNew /\ arg \in SnippetInputs /\ ret = NoRet

SpecSnippet == InitSnippet /\ [][Generate]_vars

InitMemoryCache == EngineIdle /\ RepositoryNew /\ MemoryCacheNew /\ FnIdle

SpecMemoryCache == InitMemoryCache /\ [][NextMemoryCache]_vars

InitSearch ==
  EngineIdle /\ RepositoryNew /\ MemoryCacheNew /\ arg \in SearchInputs /\ ret = NoRet

SpecSearch == InitSearch /\ [][SearchWithFilters]_vars

InitPagination ==
  EngineIdle /\ RepositoryNew /\ MemoryCacheNew /\ arg \in PaginationInputs /\ ret = NoRet

SpecPagination == InitPagination /\ [][SearchPages]_vars

InitPageRank ==
  EngineIdle /\ RepositoryNew /\ MemoryCacheNew /\ arg \in LinkGraphs /\ ret = NoRet

SpecPageRank == InitPageRank /\ [][Calculate]_vars

InitTfIdf ==
  EngineIdle /\ RepositoryNew /\ MemoryCacheNew /\ arg \in Corpora /\ ret = NoRet

SpecTfIdf == InitTfIdf /\ [][NextTfIdf]_vars


(***************************************************************************)
(* Properties of the frontier.                                             *)
(***************************************************************************)
\* the number of queued records with url u
QueuedCount(u) ==
  BagCardinality([x \in {y \in BagToSet(queue) : y.url = u} |-> queue[x]])

\* C1: under any interleaving of concurrent add_url calls with the same url,
\* at most one call returns true and the queue holds at most one record with
\* that url.
C1_SingleAccept ==
  \A u \in Urls : accept_count[u] <= 1 /\ QueuedCount(u) <= 1

\* C2: for any sequence of add_url / add_urls / next_url operations, the urls
\* next_url returned contain no duplicates, each was the url of an earlier
\* accepted add, and no record whose url is in seen_urls is enqueued (again),
\* also after it has been dequeued.
C2_NoDuplicates ==
  /\ [](\A u \in Urls : /\ CopiesIn(u, dequeued) <= 1
                        /\ CopiesIn(u, dequeued) > 0 => accept_count[u] > 0)
  /\ [][\A x \in CrawlUrls :
          x.url \in seen_urls => CopiesIn(x, queue') <= CopiesIn(x, queue)]_vars

\* a url was dequeued, and its add was attempted again after that
C2_Witness ==
  \E u \in Urls :
    /\ CopiesIn(u, dequeued) = 1 /\ QueuedCount(u) = 0
    /\ pc["t1"] = "add_lock" /\ url["t1"].url # u
    /\ remaining["t1"] = 1 /\ ctx["t1"] = "add_urls"

\* C3: add_url(u) returns true and enqueues u exactly when u.url is not in
\* seen_urls and the queue size is below max_queue_size; otherwise it returns
\* false and leaves queue, seen_urls and crawled_urls unchanged; the queue
\* size never exceeds max_queue_size.
C3_Accepts(u) == u.url \notin seen_urls /\ HeapLen(queue) < max_queue_size

C3_Outcome(p, u) ==
  IF pc'[p] = "add_lock"
  THEN u.url \notin seen_urls /\ UNCHANGED <<frontierVars, accept_count>>
  ELSE IF C3_Accepts(u)
       THEN /\ accept_count' = [accept_count EXCEPT ![u.url] = @ + 1]
            /\ queue' = queue (+) SetToBag({u})
            /\ seen_urls' = seen_urls \cup {u.url}
            /\ UNCHANGED crawled_urls
       ELSE UNCHANGED <<frontierVars, accept_count>>

C3_AddUrlContract ==
  /\ [](HeapLen(queue) <= max_queue_size)
  /\ [][\A p \in active :
          /\ pc[p] = "add_check" =>
               \A u \in NextInput(p) :
                 /\ IF pc'[p] = "add_lock" THEN url'[p] = u ELSE u.url \in seen_urls
                 /\ AddUrlCheck(p, u)
                 => C3_Outcome(p, u)
          /\ pc[p] = "add_lock" /\ AddUrlLocked(p) => C3_Outcome(p, url[p])]_vars

\* an add_url was refused for the queue size, another for a seen url
C3_Witness ==
  /\ HeapLen(queue) = max_queue_size
  /\ \E u \in Urls : accept_count[u] = 0
  /\ \E u \in Urls : CopiesIn(u, dequeued) = 1
  /\ crawled_urls # {}

\* C4: next_url removes and returns the maximum queued record (higher
\* priority is greater; equal priorities: lower depth is greater; equal
\* depth: earlier discovered_at is greater), and nothing on an empty queue.
C4_Greater(x, y) ==
  \/ x.priority > y.priority
  \/ x.priority = y.priority /\ x.depth < y.depth
  \/ x.priority = y.priority /\ x.depth = y.depth /\ x.discovered_at < y.discovered_at

C4_NextUrlMaximum ==
  [][\A p \in Procs :
       NextUrl(p) =>
         IF queue = EmptyBag
         THEN UNCHANGED <<queue, dequeued>>
         ELSE \E x \in BagToSet(queue) :
                /\ \A y \in BagToSet(queue) : ~C4_Greater(y, x)
                /\ queue' = queue (-) SetToBag({x})
                /\ dequeued' = dequeued (+) SetToBag({x.url})]_vars

\* next_url took one of two queued records that differ in depth only
C4_Witness ==
  /\ BagCardinality(dequeued) = 1 /\ HeapLen(queue) = 1
  /\ \A u \in Urls : accept_count[u] = IF u \in {"http://a/", "http://b/"} THEN 1 ELSE 0
  /\ CopiesIn("http://a/", dequeued) = 1
  /\ CopiesIn(CrawlUrl("http://b/", 1, 1, 0), queue) = 1


(***************************************************************************)
(* Properties of the scheduler.                                            *)
(***************************************************************************)
Returned(p) == result[p] # NoResult

\* C5: schedule_crawl on a task that fails on its first k invocations and
\* then succeeds, with k < max_retries, returns the success value, and the
\* task is invoked exactly k+1 times.
C5_RetryThenSuccess ==
  \A p \in Procs :
    Returned(p) /\ task[p].recovers /\ task[p].failures < max_retries =>
      result[p] = OkResult /\ invocations[p] = task[p].failures + 1

\* a call returned the success of the second invocation of its task
C5_Witness ==
  \E p \in Procs :
    /\ result[p] = OkResult /\ task[p].recovers /\ task[p].failures = 1
    /\ max_retries = 2 /\ invocations[p] = 2

\* C6: schedule_crawl on a task that fails on every invocation returns
\* MaxRetriesExceeded with the message of the last error, after at most
\* max_retries + 1 invocations, for every max_retries >= 0.
C6_GivesUp ==
  \A p \in Procs :
    ~task[p].recovers =>
      /\ invocations[p] <= max_retries + 1
      /\ Returned(p) => result[p] = MaxRetriesExceeded(invocations[p])

\* a call gave up on a task that failed more than once
C6_Witness ==
  \E p \in Procs :
    /\ ~task[p].recovers /\ max_retries = 2
    /\ result[p] = MaxRetriesExceeded(2) /\ invocations[p] = 2

\* C7: a task that fails on each of its first max_retries invocations is
\* invoked once more (invocation max_retries + 1), and when that invocation
\* succeeds schedule_crawl returns its result.
C7_RetriesUpToMax ==
  \A p \in Procs :
    Returned(p) /\ task[p].recovers /\ task[p].failures = max_retries =>
      result[p] = OkResult /\ invocations[p] = max_retries + 1

\* C8: at most concurrent_requests calls are between permit acquisition and
\* return; every call that returned has given its permit back, so with all
\* calls returned the available permits equal concurrent_requests.
C8_Holders == {p \in Procs : pc[p] \in {"delay", "delay_sleep", "delay_insert", "task", "retry_sleep"}}

C8_Permits ==
  /\ Cardinality(C8_Holders) <= concurrent_requests
  /\ permits = concurrent_requests - Cardinality(C8_Holders)

\* a call waits for a permit that the other calls hold, after a call has
\* returned with success and another with MaxRetriesExceeded
C8_Witness ==
  /\ permits = 0 /\ Cardinality(C8_Holders) = concurrent_requests
  /\ \E p \in Procs : pc[p] = "acquire"
  /\ concurrent_requests = 1
  /\ \E p \in C8_Holders : pc[p] = "retry_sleep"


(***************************************************************************)
(* Properties of the crawl.                                                *)
(***************************************************************************)
\* C9: a per-page failure never terminates a worker: when the processing of
\* a dequeued url fails (domain extraction, or fetch and processing with the
\* retries exhausted), the worker increments pages_failed by one and goes on
\* to dequeue the next url.
C9_FailureCounted ==
  [][\A w \in Procs :
       (/\ pc'[w] # pc[w]
        /\ \/ /\ pc[w] = "dequeued"
              /\ crawl_url[w].url \notin crawled_urls
              /\ ~ExtractDomain(crawl_url[w].url).ok
           \/ /\ pc[w] = "scheduled"
              /\ result[w] # OkResult)
       => pages_failed' = pages_failed + 1 /\ pc'[w] = "loop"]_vars

\* C10: under fair scheduling every worker exits and crawl_internal returns;
\* a worker exits only when pages_crawled >= max_pages or when the frontier
\* is empty after the grace sleep.
C10_CrawlTerminates ==
  /\ <>(phase = "returned")
  /\ [][\A w \in Procs :
          pc[w] # "done" /\ pc'[w] = "done" =>
            \/ pc[w] = "loop" /\ pages_crawled >= max_pages
            \/ pc[w] = "grace_sleep" /\ HeapLen(queue) = 0]_vars

\* C11: a task whose error is not retryable is invoked exactly once by
\* schedule_crawl; only a retryable error leads to a further invocation.
C11_RetryableOnly ==
  \A p \in Procs :
    task[p] # NoTask /\ ~is_retryable(task[p].error) => invocations[p] <= 1

\* C12: when save_page fails for a fetched page, the url is still marked
\* crawled in the frontier and pages_crawled is not incremented for the page.
C12_UnsavedNotCounted ==
  [][\A w \in Procs :
       pc[w] = "page_ok" /\ pc'[w] = "loop" /\ save_failed[w] =>
         crawl_url[w].url \in crawled_urls /\ pages_crawled' = pages_crawled]_vars

\* C13: for schedule_crawl calls issued one after the other, a call for a
\* domain that has no entry does not sleep, a call for a domain whose entry
\* is younger than request_delay sleeps for the remainder, and so the task
\* of a later call on a domain starts at least request_delay after the start
\* of the earlier one.
C13_DomainDelay ==
  [][\A p \in active :
       /\ pc[p] = "delay" /\ pc'[p] # "delay" =>
            IF domain[p] \in domain_delays /\ elapsed[domain[p]] < request_delay
            THEN pc'[p] = "delay_sleep" /\ sleep_left'[p] = request_delay - elapsed[domain[p]]
            ELSE pc'[p] = "delay_insert"
       /\ pc[p] = "delay_insert" /\ pc'[p] = "task" /\ domain[p] \in domain_delays =>
            elapsed[domain[p]] = request_delay]_vars

\* the second call on a domain has slept the remainder of request_delay
C13_Witness ==
  \E p \in active :
    /\ pc[p] = "delay_sleep" /\ sleep_left[p] = 0
    /\ request_delay = 2 /\ elapsed[domain[p]] = request_delay

(***************************************************************************)
(* Properties of the repository.                                           *)
(***************************************************************************)
StoredOf(d) == {u \in DOMAIN pages : pages[u].domain = d}

\* C14: after any sequence of save_page calls, page_count of a domain is
\* the number of distinct stored pages of the domain; saving a stored url
\* again leaves page_count unchanged.
C14_PageCount ==
  \A d \in DOMAIN domains : domains[d].page_count = Cardinality(StoredOf(d))

\* C15: the domain of every stored page is the host component of its url,
\* the value extract_domain gives for the url, also for a url with a port
\* or userinfo.
C15_DomainIsHost ==
  \A u \in DOMAIN pages : pages[u].domain = host_str(u)

(***************************************************************************)
(* Properties of the functions.                                            *)
(***************************************************************************)
\* the charset= parameter of a Content-Type header value
C16_HeaderCharset(header) ==
  IF ~header.some THEN [some |-> FALSE]
  ELSE LET i == Find(header.val, "charset=")
       IN  IF i = 0 THEN [some |-> FALSE] ELSE for_label(<<header.val[i + 1]>>)

\* the label of a meta charset in the first 1024 bytes
C16_MetaCharset(bytes) ==
  LET text == First1024(bytes)
      i == Find(text, "charset=")
  IN  IF i = 0 THEN [some |-> FALSE]
      ELSE for_label(<<IF text[i + 1] = "\"" THEN text[i + 2] ELSE text[i + 1]>>)

\* C16: the charset of a decoded response is that of the charset= parameter
\* of Content-Type when it names a known encoding, whatever the body;
\* otherwise that of a meta charset in the first 1024 bytes; otherwise that
\* of the byte order mark; otherwise UTF-8.
C16_CharsetPriority ==
  ret # NoRet /\ ret.ok =>
    ret.encoding =
      IF C16_HeaderCharset(arg.header).some THEN C16_HeaderCharset(arg.header).val
      ELSE IF C16_MetaCharset(arg.bytes).some THEN C16_MetaCharset(arg.bytes).val
      ELSE IF detect_bom_encoding(arg.bytes).some THEN detect_bom_encoding(arg.bytes).val
      ELSE "UTF-8"

\* the number of characters of a content in the block counted at index b
C17_Count(content, b) == Cardinality({j \in 1..Len(content) : BlockOf(content[j]) = b})

\* the block with more characters than every other one, -1 when there is none
C17_Dominant(content) ==
  LET top == {b \in 0..5 : \A o \in (0..5) \ {b} : C17_Count(content, b) > C17_Count(content, o)}
  IN  IF top = {} THEN -1 ELSE CHOOSE b \in top : TRUE

\* C17: detect_content_language classifies by the dominant block:
\* Devanagari is Hindi unless a Marathi marker is present, Kannada, Tamil,
\* Telugu and Malayalam give kn, ta, te, ml, and everything else, with the
\* empty content and a content without a character of a counted block, is
\* English.
C17_LanguageByBlock ==
  ret # NoRet =>
    LET b == C17_Dominant(arg)
        counted == \E j \in 1..Len(arg) : BlockOf(arg[j]) # -1
    IN  /\ b = 1 => ret.val = IF Contains(arg, <<"d1", "d2">>) \/ Contains(arg, <<"l1", "l2">>)
                              THEN "mr" ELSE "hi"
        /\ b = 2 => ret.val = "kn"
        /\ b = 3 => ret.val = "ta"
        /\ b = 4 => ret.val = "te"
        /\ b = 5 => ret.val = "ml"
        /\ b = 0 \/ ~counted => ret.val = "en"

\* the terms that occur in the lowercased content at the earliest position
C18_Earliest(content, query_terms) ==
  {query_terms[i] : i \in {k \in 1..Len(query_terms) :
      /\ BestPosition(content, query_terms).some
      /\ FindBytes(to_lowercase(content), to_lowercase(query_terms[k])) =
           BestPosition(content, query_terms)}}

\* C18: when some query term occurs in the content, case-insensitively, the
\* snippet generate returns contains the earliest matched term intact.
C18_SnippetHasTerm ==
  ret # NoRet /\ C18_Earliest(arg.content, arg.query_terms) # {} =>
    \E term \in C18_Earliest(arg.content, arg.query_terms) :
      Contains(to_lowercase(ret.val), to_lowercase(term))

(***************************************************************************)
(* Properties of the cache                                                 *)
(***************************************************************************)
\* C19: a page that was cached, and whose entries have since neither expired
\* nor been invalidated, is what get_page_by_id returns for its id and what
\* get_page_by_url returns for its url.
C19_CachedPageFound ==
  \A p \in live :
    /\ ret.called /\ ret.op = "get_page_by_id" /\ ret.key = p.id => ret.val = Some(p)
    /\ ret.called /\ ret.op = "get_page_by_url" /\ ret.key = p.url => ret.val = Some(p)

(***************************************************************************)
(* Properties of the search                                                *)
(***************************************************************************)
\* C20: with sort Relevance the results of search_with_filters are in the
\* order of their combined score (0.6 * relevance + 0.25 * (pagerank * 100)
\* + 0.15 * (tfidf * 100)) * penalty(url), descending.
C20_RelevanceOrder ==
  ret # NoRet /\ arg.sort_by = "Relevance" =>
    \A i, j \in 1..Len(ret.val) :
      i < j => combined_score(ret.val[i]) >= combined_score(ret.val[j])

(***************************************************************************)
(* Properties of PageRank                                                  *)
(***************************************************************************)
\* C21: for a non-empty graph, calculate returns one rank for each node and
\* the ranks sum to 1 within 0.0001.
C21_RanksSumToOne ==
  ret # NoRet /\ arg.nodes # {} =>
    /\ DOMAIN ret.val = arg.nodes
    /\ AbsDiff(SumOver(ret.val, arg.nodes), One) < One \div 10000

\* calculate returned for a graph with a dangling node, whose ranks before
\* the normalization sum to less than 0.9999
C21_Witness ==
  /\ ret # NoRet /\ arg.nodes # {} /\ dangling_nodes(arg) # {}
  /\ Cardinality(arg.nodes) = 3
  /\ SumOver(IteratedRanks(arg), arg.nodes) < One - One \div 10000

(***************************************************************************)
(* Properties of TF-IDF                                                    *)
(***************************************************************************)
\* C22: in an index built over N documents, the document frequency of a term
\* never exceeds N, its idf is never negative, and the idf is positive
\* exactly when 0 < df < N.
C22_IdfBoundary ==
  ret # NoRet =>
    /\ \A t \in TfTerms : ret.calc.document_freq[t] <= ret.calc.total_docs
    /\ ret.op = "calculate_idf" =>
         /\ ret.val >= 0
         /\ ret.val > 0 <=>
              /\ ret.term \in TfTerms
              /\ 0 < ret.calc.document_freq[ret.term]
              /\ ret.calc.document_freq[ret.term] < ret.calc.total_docs

\* the idf of a term that is in every one of two or more documents, one of
\* them with the term twice
C22_Witness ==
  /\ ret # NoRet /\ ret.op = "calculate_idf" /\ ret.term = "web" /\ ret.val = 0
  /\ ret.calc.total_docs >= 2 /\ ret.calc.document_freq["web"] = ret.calc.total_docs
  /\ \E i \in 1..Len(arg) : arg[i][2] = <<"Web,", "web">>

(***************************************************************************)
(* C23: during a crawl no url is fetched more than once: each url is       *)
(* handed to schedule_crawl by at most one worker, and is counted at most  *)
(* once in pages_crawled.                                                  *)
(***************************************************************************)
C23_FetchedOnce ==
  \A u \in AllUrls : handed[u] <= 1 /\ counted_ok[u] <= 1

\* what the workers do guarantee: a url is handed over no more often than
\* add_url accepted it, and counted no more often than it was handed over
C23_HandedAsAccepted ==
  \A u \in AllUrls : handed[u] <= accept_count[u] /\ counted_ok[u] <= handed[u]

(***************************************************************************)
(* C24: in every reachable state of a crawl pages_crawled <= max_pages.    *)
(***************************************************************************)
C24_WithinMaxPages ==
  pages_crawled <= max_pages

\* the bound the workers do keep: each worker passes the test of the loop
\* at most once more after the last page that the budget allows
C24_OvershootBelowWorkers ==
  pages_crawled <= max_pages + concurrent_requests - 1

(***************************************************************************)
(* C25: with concurrent schedule_crawl calls for the same and for          *)
(* different domains on a finite pool of executor threads, no reachable    *)
(* state has every call blocked: there is no deadlock between a call that  *)
(* sleeps in respect_domain_delay and the calls that read or update        *)
(* domain_delays or wait for a permit.                                     *)
(***************************************************************************)
\* insert of the call of p waits for the lock of its shard
InsertBlocked(p) ==
  pc[p] = "delay_insert" /\ \E q \in Procs \ {p} : HoldsRef(q, domain[p])

\* every executor thread is held by a call whose insert waits for a call
\* that sleeps with its reference, and that no thread is left to wake
Deadlocked ==
  /\ \E p \in Procs : InsertBlocked(p)
  /\ \A p \in Procs : OnThread(p) => InsertBlocked(p)
  /\ Cardinality({p \in Procs : OnThread(p)}) = worker_threads

C25_NoDeadlock ==
  ~Deadlocked

\* a deadlock is for ever: from then on only the clock moves
C25_DeadlockStays ==
  [][Deadlocked => /\ Deadlocked'
                   /\ UNCHANGED <<pc, permits, domain_delays, result>>]_vars

\* with an executor thread for every call no state is a deadlock
C25_NoDeadlockThreadPerCall ==
  worker_threads >= Cardinality(active) => ~Deadlocked

(***************************************************************************)
(* C26: two concurrent schedule_crawl calls for one domain start their     *)
(* tasks less than request_delay apart only when the check of each of them *)
(* found no entry or an entry at least request_delay old; in every other   *)
(* interleaving their task starts are at least request_delay apart.  A     *)
(* call starts its task with its insert, and the entry of a domain is as   *)
(* old as the last task start for that domain.                             *)
(***************************************************************************)
C26_ApartUnlessBothPassed ==
  [][\A p \in active :
       /\ pc[p] = "delay_insert" /\ pc'[p] = "task"
       /\ domain[p] \in domain_delays /\ elapsed[domain[p]] < request_delay
       => ~slept[p] /\ ~after_sleep[domain[p]]]_vars

\* a call that found no entry, or one as old as request_delay, wrote the entry
\* that a later call finds younger than request_delay at its own insert
C26_BothPassedTogether ==
  \E p \in active :
    /\ pc[p] = "delay_insert" /\ ~slept[p]
    /\ domain[p] \in domain_delays /\ elapsed[domain[p]] < request_delay
    /\ ~after_sleep[domain[p]]

(***************************************************************************)
(* C27: different domains do not interfere.  A call for a domain without a *)
(* recent request goes on to its task without waiting, also while a call   *)
(* for another domain sleeps out the remaining delay of that domain; and a *)
(* call changes the last-request timestamp of its own domain only.         *)
(***************************************************************************)
\* the timestamp of domain d is written in this step
Stamped(d) ==
  /\ d \in domain_delays'
  /\ d \notin domain_delays \/ elapsed'[d] < elapsed[d]

C27_DomainsIndependent ==
  /\ [](\A p \in active :
          pc[p] = "delay_insert" /\ ~slept[p] =>
            \A q \in Procs \ {p} : domain[q] # domain[p] => ~HoldsRef(q, domain[p]))
  /\ [][\A d \in Domains :
          Stamped(d) => \E p \in active : /\ pc[p] = "delay_insert" /\ pc'[p] = "task"
                                          /\ domain[p] = d]_vars

\* the second half alone: only the call's own domain is stamped
C27_OwnTimestampOnly ==
  [][\A d \in Domains :
       Stamped(d) => \E p \in active : /\ pc[p] = "delay_insert" /\ pc'[p] = "task"
                                       /\ domain[p] = d]_vars

\* the first half where every domain has a shard of its own
C27_IndependentShards ==
  ~same_shard =>
    \A p \in active :
      pc[p] = "delay_insert" /\ ~slept[p] =>
        \A q \in Procs \ {p} : domain[q] # domain[p] => ~HoldsRef(q, domain[p])

C28_UnlessWorkerError ==
  phase = "returned" /\ (\A w \in Procs : exited[w] # "error") =>
    pages_crawled >= max_pages \/ HeapLen(queue) = 0

(***************************************************************************)
(* C29: pagination is consistent.  For one index, query, filter, sort key  *)
(* and page size L, the pages at the offsets 0, L, 2L, ... are pairwise    *)
(* disjoint, and one after the other they are in the order of the sort     *)
(* key, descending.                                                        *)
(***************************************************************************)
\* the urls on a page; the documents of the index differ in their urls
UrlsOn(page) == {page[i].url : i \in 1..Len(page)}

C29_PagesConsistent ==
  ret # NoRet =>
    /\ \A o1, o2 \in PageOffsets(arg.limit) :
         o1 # o2 => UrlsOn(ret.val[o1]) \cap UrlsOn(ret.val[o2]) = {}
    /\ \A o1, o2 \in PageOffsets(arg.limit) :
         \A i \in 1..Len(ret.val[o1]), j \in 1..Len(ret.val[o2]) :
           o1 < o2 \/ (o1 = o2 /\ i < j) =>
             SortKey(arg.sort_by, ret.val[o1][i]) >= SortKey(arg.sort_by, ret.val[o2][j])

\* each page by itself is in the order of the sort key
C29_EachPageOrdered ==
  ret # NoRet =>
    \A o \in PageOffsets(arg.limit) :
      \A i, j \in 1..Len(ret.val[o]) :
        i < j => SortKey(arg.sort_by, ret.val[o][i]) >= SortKey(arg.sort_by, ret.val[o][j])

(***************************************************************************)
(* C30: no url whose depth exceeds crawler.max_depth is ever enqueued in   *)
(* the frontier or fetched during a crawl: the links discovered on a page  *)
(* at depth max_depth are not crawled.                                     *)
(***************************************************************************)
\* the worker w is inside schedule_crawl with the fetch of crawl_url[w]
Fetching(w) ==
  ctx[w] = "worker" /\ pc[w] \in {"acquire", "delay", "delay_sleep", "delay_insert", "task",
                                  "retry_sleep", "scheduled"}

C30_WithinMaxDepth ==
  /\ \A x \in BagToSet(queue) : x.depth <= max_depth
  /\ \A w \in active : Fetching(w) => crawl_url[w].depth <= max_depth

====
